---- MODULE Spec2Model ----
(***************************************************************************)
(* Model of the dmOverlay overlay registry and layout engine               *)
(* (src/template.ts, native part) and of the constants it uses             *)
(* (src/unnamed/part_002).                                                 *)
(*                                                                         *)
(* The registry is the insertion-ordered Map activeWindows; it is modelled *)
(* as the sequence of its entries in Map iteration order.  BrowserWindow   *)
(* objects are modelled by a pool of window records: a record is "free"    *)
(* when no window uses it (never created, or destroyed and its 'closed'    *)
(* callback delivered), "open" when the window exists and the registry     *)
(* holds it, "closing" once win.close() was requested and the 'closed'     *)
(* event is still to come, and "orphan" when the window exists but its     *)
(* entry was deleted by the 'closed' callback of another window.           *)
(***************************************************************************)
EXTENDS Integers, Sequences, FiniteSets, TLC

(***************************************************************************)
(* Program constants (src/unnamed/part_002).                               *)
(***************************************************************************)
WINDOW_WIDTH == 494
WINDOW_MIN_HEIGHT == 160
WINDOW_MAX_HEIGHT == 420
WINDOW_MARGIN == 20
WINDOW_SPACING == 10
MAX_RENDERED_MESSAGES == 200
MAX_OVERLAY_WINDOWS == 5
SAVE_DELAY_MS == 250
PRIME_TTL_MS == 60000

(***************************************************************************)
(* Bounds of the model and the sets its inputs are drawn from.             *)
(***************************************************************************)
\* Spec, the layout specification: the number of messages that arrive
MaxMsgs == 3
\* SpecCap, the capacity specification: the number of messages that arrive
MaxMsgsCap == 7
\* SpecBuf, the message buffer specification: the number of messages
MaxDelivered == 202

\* conversation ids (channelId) and window objects of each specification
Convs == {1, 2, 3}
WinIds == {1, 2, 3}
ConvsCap == 1..(MAX_OVERLAY_WINDOWS + 1)
WinIdsCap == 1..(MAX_OVERLAY_WINDOWS + 1)
ConvsBuf == {1}
WinIdsBuf == {1, 2}
\* a requested height that Number() does not turn into a finite number
NotFinite == <<>>
\* heights the render surface may request: <<n>> is the number n
ReqHeights == {<<100>>, <<300>>}
ReqHeightsCap == {<<300>>}
ReqHeightsRz == {<<100>>, <<300>>, <<500>>, NotFinite}
\* SpecPr, the priming specification: the number of friends' messages, of
\* sendMessageSafe calls, and the last instant of the clock
MaxMsgsPr == 2
MaxSendsPr == 1
MaxClockPr == 60002
ChansPr == {1, 2}
WinIdsPr == {1, 2}
\* the time that may pass in one step
TickSteps == {PRIME_TTL_MS - 2, PRIME_TTL_MS - 1}
\* SpecSn, the sending specification: the number of sendMessageSafe calls and
\* the last instant of the clock
MaxSendsSn == 2
MaxClockSn == 2
ChansSn == {1}
TickStepsSn == {1}
\* SpecEv, the event filter specification: the number of accepted events
MaxMsgsEv == 2
ChansEv == {1, 2}
WinIdsEv == {1, 2}
\* SpecRz, the resize specification
MaxMsgsRz == 2
ConvsRz == {1, 2}
WinIdsRz == {1, 2}
\* SpecRp, the reply specification: the number of messages and of replies
MaxMsgsRp == 2
MaxRepliesRp == 1
ConvsRp == {1}
WinIdsRp == {1, 2}
ReqHeightsRp == {<<300>>}
\* SpecCap: the conversation the user closes and resizes, the window dragged
ClosedCap == {1}
DraggedCap == {1}
\* positions the user may drag a window to
DragPositions == {<<100, 200>>}
\* positions loadPersistedState may have read at start-up
PersistedPositions == {<<300, 400>>}
\* null / undefined position
NoPos == <<>>

VARIABLES
    activeWindows,   \* the Map activeWindows, as the sequence of its entries
    wins,            \* the BrowserWindow objects
    lastDraggedPos,  \* module variable lastDraggedPos
    clock,           \* Date.now(): the timestamp of the next message
    delivered,       \* history: messages given to each entry since its creation
    lastResize,      \* history: the last DMOVERLAY_RESIZE request
    host,            \* what the host application offers to the plugin
    lastPrimedAt,    \* the Map lastPrimedAt of the plugin
    primes,          \* the primeChannel calls that are suspended at an await
    hostCalls,       \* history: the priming calls made on MessageActions
    sends,           \* the sendMessageSafe calls, in the order they were made
    lastEvent,       \* history: the last MESSAGE_CREATE event and what it did
    surf,            \* the render surfaces: which are sending, which will close
    replies,         \* the replies that the render surfaces have sent
    html,            \* the text given to generateHTML and its escaped form
    savePosTimer,    \* module variable savePosTimer: the time left, or NoTimer
    stateFile,       \* the state file in the userData directory
    writes,          \* history: the positions this process wrote to the file
    booted,          \* the module has been initialised
    started          \* the plugin is started

(***************************************************************************)
(* State persistence.  A JSON value is a record: t is its type ("number",  *)
(* "null", "numeral" for a string that reads as the number n, "text" for   *)
(* any other string, "undefined" for a missing property), n its number.    *)
(***************************************************************************)
JVal(t, n) == [t |-> t, n |-> n]

\* Number(v): <<n>>, or NotFinite for NaN
ToNumber(v) ==
    CASE v.t = "number" -> <<v.n>>
      [] v.t = "numeral" -> <<v.n>>
      [] v.t = "null" -> <<0>>
      [] OTHER -> NotFinite

\* the state file: kind is "missing", "invalid" (no JSON) or "json"; ldp
\* tells whether the document's lastDraggedPos is "absent", "null" or an
\* "object" with the properties x and y
NoFile == [kind |-> "missing", ldp |-> "absent",
           x |-> JVal("undefined", 0), y |-> JVal("undefined", 0)]

\* lines 395-400: JSON.stringify of the data that scheduleSaveState writes
WriteState(pos) ==
    [kind |-> "json", ldp |-> "object",
     x |-> JVal("number", pos[1]), y |-> JVal("number", pos[2])]

\* the file from which a process read the position pos at its start
FileOf(pos) == IF pos = <<>> THEN NoFile ELSE WriteState(pos)

\* lines 373-390: the value of lastDraggedPos after loadPersistedState
LoadPersistedState(file, ldp) ==
    IF file.kind # "json" THEN ldp
    ELSE LET absent == JVal("undefined", 0)
             x == ToNumber(IF file.ldp = "object" THEN file.x ELSE absent)
             y == ToNumber(IF file.ldp = "object" THEN file.y ELSE absent)
         IN IF x # NotFinite /\ y # NotFinite THEN <<x[1], y[1]>> ELSE ldp

\* no timeout is pending
NoTimer == -1

\* a scheduleSaveState that lets a pending timeout run on
ScheduleSaveStateThrottle(timer) ==
    IF timer # NoTimer THEN timer ELSE SAVE_DELAY_MS

\* lines 392-406: clearTimeout of the pending timeout, and a new timeout
ScheduleSaveState(timer) == SAVE_DELAY_MS

\* nothing was given to generateHTML
NoHtml == [text |-> <<>>, escaped |-> <<>>, done |-> FALSE]

\* the variables of the specifications that are not about the registry alone
resizeVars == <<lastResize>>
primeVars == <<lastPrimedAt, primes, hostCalls>>
plugVars == <<host, primeVars, sends, lastEvent>>
replyVars == <<surf, replies>>
saveVars == <<savePosTimer, stateFile, writes, booted>>
auxVars == <<html, saveVars, started>>
otherVars == <<resizeVars, plugVars, replyVars, auxVars>>

vars == <<activeWindows, wins, lastDraggedPos, clock, delivered, otherVars>>

(***************************************************************************)
(* Helpers on sequences.                                                   *)
(***************************************************************************)
RemoveAt(s, i) == [j \in 1..(Len(s) - 1) |-> IF j < i THEN s[j] ELSE s[j + 1]]

Without(s, x) == SelectSeq(s, LAMBDA e : e # x)

Keys(aw) == [i \in 1..Len(aw) |-> aw[i].channelId]

KeySet(aw) == {aw[i].channelId : i \in 1..Len(aw)}

\* activeWindows.get(key): the index of the entry, 0 when absent
IndexOf(aw, key) ==
    IF \E i \in 1..Len(aw) : aw[i].channelId = key
    THEN CHOOSE i \in 1..Len(aw) : aw[i].channelId = key
    ELSE 0

\* activeWindows.delete(key)
MapDelete(aw, key) == SelectSeq(aw, LAMBDA e : e.channelId # key)

\* activeWindows.set(key, st): a present key keeps its place, a new one goes last
MapSet(aw, key, st) ==
    IF IndexOf(aw, key) # 0
    THEN [aw EXCEPT ![IndexOf(aw, key)] = st]
    ELSE Append(aw, st)

(***************************************************************************)
(* Windows.                                                                *)
(***************************************************************************)
\* A window is a record: state; key, the conversation of its callbacks; pos
\* and height, its place on the screen; loaded, did-finish-load was emitted;
\* messages, the messages array of its page; onAppend, the page's script has
\* registered its listener of DMOVERLAY_APPEND.
FreeWin == [state |-> "free", key |-> 0, pos |-> NoPos, height |-> 0,
            loaded |-> FALSE, messages |-> <<>>, onAppend |-> FALSE]

\* win.isDestroyed()
IsDestroyed(ws, w) == ws[w].state = "free"

\* A window that left the registry.  After close() the registry reads its
\* position and size no more, so only the conversation of its callbacks and
\* whether its page has loaded are kept; a window whose entry was deleted
\* under it ("orphan") stays on screen where it is.  No DMOVERLAY_APPEND is
\* sent to either, so the messages of its page are left out.
Detached(win, state) ==
    IF state = "orphan"
    THEN [win EXCEPT !.state = state, !.messages = <<>>, !.onAppend = FALSE]
    ELSE [FreeWin EXCEPT !.state = state, !.key = win.key,
                         !.loaded = win.loaded]

\* win.close(): the window is destroyed later, when 'closed' is emitted
WinClose(ws, w) == [ws EXCEPT ![w] = Detached(ws[w], "closing")]

\* screen.getPrimaryDisplay().workAreaSize
workAreaSize == [width |-> 1920, height |-> 1080]

\* a position that leaves out the spacing between the windows
GetWindowPositionNoSpacing(index, winHeight, stackedHeightBelow) ==
    << workAreaSize.width - WINDOW_WIDTH - WINDOW_MARGIN,
       workAreaSize.height - WINDOW_MARGIN - stackedHeightBelow - winHeight >>

GetWindowPosition(index, winHeight, stackedHeightBelow) ==
    << workAreaSize.width - WINDOW_WIDTH - WINDOW_MARGIN,
       workAreaSize.height - WINDOW_MARGIN - stackedHeightBelow - winHeight
           - (index * WINDOW_SPACING) >>

\* a walk that moves the dragged windows too
RECURSIVE RepositionAllFrom(_, _, _, _, _)
RepositionAllFrom(aw, ws, i, index, stackedBelow) ==
    IF i > Len(aw) THEN ws
    ELSE LET st == aw[i] IN
         IF ~IsDestroyed(ws, st.win)
         THEN RepositionAllFrom(aw,
                  [ws EXCEPT ![st.win].pos =
                       GetWindowPosition(index, st.currentHeight, stackedBelow)],
                  i + 1, index + 1, stackedBelow + st.currentHeight)
         ELSE RepositionAllFrom(aw, ws, i + 1, index, stackedBelow)

RECURSIVE RepositionFrom(_, _, _, _, _)
RepositionFrom(aw, ws, i, index, stackedBelow) ==
    IF i > Len(aw) THEN ws
    ELSE LET st == aw[i] IN
         IF ~IsDestroyed(ws, st.win)
         THEN IF st.manualPos # NoPos
              THEN RepositionFrom(aw, ws, i + 1, index, stackedBelow)
              ELSE RepositionFrom(aw,
                       [ws EXCEPT ![st.win].pos =
                            GetWindowPosition(index, st.currentHeight, stackedBelow)],
                       i + 1, index + 1, stackedBelow + st.currentHeight)
         ELSE RepositionFrom(aw, ws, i + 1, index, stackedBelow)

\* a walk from the most recently updated entry to the least recently updated
RepositionWindowsReversed(aw, ws) ==
    RepositionFrom([i \in 1..Len(aw) |-> aw[Len(aw) + 1 - i]], ws, 1, 0, 0)

RepositionWindows(aw, ws) == RepositionFrom(aw, ws, 1, 0, 0)

Clamp(n, min, max) ==
    LET m == IF max < n THEN max ELSE n IN IF min > m THEN min ELSE m

\* a normalisation that forgets the upper limit
NormalizeNoMax(h) ==
    IF h = NotFinite THEN WINDOW_MIN_HEIGHT
    ELSE IF h[1] < WINDOW_MIN_HEIGHT THEN WINDOW_MIN_HEIGHT ELSE h[1]

\* finite requests are integers here, so Math.ceil is the identity
NormalizeRequestedHeight(h) ==
    IF h = NotFinite THEN WINDOW_MIN_HEIGHT
    ELSE Clamp(h[1], WINDOW_MIN_HEIGHT, WINDOW_MAX_HEIGHT)

\* a trim that keeps the oldest messages and drops the new one
PushTrimNewest(messages, msg) ==
    LET pushed == Append(messages, msg) IN
    IF Len(pushed) > MAX_RENDERED_MESSAGES
    THEN SubSeq(pushed, 1, MAX_RENDERED_MESSAGES)
    ELSE pushed

\* existing.messages.push(msg) followed by the splice that trims the front
PushTrim(messages, msg) ==
    LET pushed == Append(messages, msg) IN
    IF Len(pushed) > MAX_RENDERED_MESSAGES
    THEN SubSeq(pushed, Len(pushed) - MAX_RENDERED_MESSAGES + 1, Len(pushed))
    ELSE pushed

(***************************************************************************)
(* closeNotification as a function of the registry and the windows.        *)
(***************************************************************************)
\* a close that falls back to the oldest entry when id has none
CloseNotificationOldest(aw, ws, id) ==
    LET i == IF IndexOf(aw, id) = 0 /\ aw # <<>> THEN 1 ELSE IndexOf(aw, id)
        ws1 == IF i # 0 /\ ~IsDestroyed(ws, aw[i].win)
               THEN WinClose(ws, aw[i].win) ELSE ws
        aw1 == IF i # 0 THEN MapDelete(aw, aw[i].channelId) ELSE aw
    IN [aw |-> aw1, ws |-> RepositionWindows(aw1, ws1)]

CloseNotificationOp(aw, ws, id) ==
    LET i == IndexOf(aw, id)
        ws1 == IF i # 0 /\ ~IsDestroyed(ws, aw[i].win)
               THEN WinClose(ws, aw[i].win) ELSE ws
        aw1 == MapDelete(aw, id)
    IN [aw |-> aw1, ws |-> RepositionWindows(aw1, ws1)]

(***************************************************************************)
(* History variables.                                                      *)
(***************************************************************************)
Restrict(f, S) == [k \in S |-> f[k]]

\* the entry of key received msg: at its creation (fresh) or as an append
Deliver(d, key, msg, fresh) ==
    [k \in (DOMAIN d) \cup {key} |->
        IF k = key
        THEN (IF fresh \/ key \notin DOMAIN d THEN <<msg>> ELSE Append(d[key], msg))
        ELSE d[k]]

(***************************************************************************)
(* showNotification(_, data) with data.channelId = key; msg stands for the *)
(* message, its id and its timestamp                                       *)
(***************************************************************************)
FreeWins(ws) == {w \in DOMAIN ws : ws[w].state = "free"}

\* new BrowserWindow(...): the window object that is created
NewWin(ws) == CHOOSE w \in FreeWins(ws) : \A v \in FreeWins(ws) : w <= v

\* a lookup that never finds the conversation's window
HasLiveEntryNever(aw, ws, key) == FALSE

HasLiveEntry(aw, ws, key) ==
    IndexOf(aw, key) # 0 /\ ~IsDestroyed(ws, aw[IndexOf(aw, key)].win)

\* an append that leaves the entry at its place in the Map
ShowAppendInPlace(aw, ws, key, msg) ==
    LET i == IndexOf(aw, key)
        existing == [aw[i] EXCEPT !.messages = PushTrim(@, msg),
                                  !.lastTimestamp = msg]
        aw1 == MapSet(aw, key, existing)
    IN [aw |-> aw1, ws |-> RepositionWindows(aw1, ws)]

\* lines 628-653: the conversation has a window, the message is appended
\* existing.win.webContents.send("DMOVERLAY_APPEND", msg): the page's
\* listener pushes the message and trims its array; without a listener the
\* message is dropped
SendAppend(ws, w, msg) ==
    IF ws[w].onAppend
    THEN [ws EXCEPT ![w].messages = PushTrim(@, msg)]
    ELSE ws

ShowAppendOp(aw, ws, key, msg) ==
    LET i == IndexOf(aw, key)
        existing == [aw[i] EXCEPT !.messages = PushTrim(@, msg),
                                  !.lastTimestamp = msg]
        aw1 == MapSet(MapDelete(aw, key), key, existing)
        ws1 == RepositionWindows(aw1, ws)
    IN [aw |-> aw1, ws |-> SendAppend(ws1, aw[i].win, msg)]

\* a limit that is tested one entry too late
EvictOpLate(aw, ws) ==
    IF Len(aw) > MAX_OVERLAY_WINDOWS
    THEN CloseNotificationOp(aw, ws, aw[1].channelId)
    ELSE [aw |-> aw, ws |-> ws]

\* lines 655-659: limit concurrent overlays
EvictOp(aw, ws) ==
    IF Len(aw) >= MAX_OVERLAY_WINDOWS
    THEN CloseNotificationOp(aw, ws, aw[1].channelId)
    ELSE [aw |-> aw, ws |-> ws]

\* lines 655-732: a window is created for the conversation
ShowCreateOp(aw, ws, ldp, key, msg) ==
    LET ev == EvictOp(aw, ws)
        defaultPos == GetWindowPosition(Len(ev.aw), WINDOW_MIN_HEIGHT, 0)
        pos == IF ldp # NoPos THEN ldp ELSE defaultPos
        initialHeight == WINDOW_MIN_HEIGHT
        win == NewWin(ev.ws)
        st == [win |-> win, channelId |-> key, messages |-> <<msg>>,
               lastTimestamp |-> msg, currentHeight |-> initialHeight,
               manualPos |-> ldp]
    IN [aw |-> MapSet(ev.aw, key, st),
        ws |-> [ev.ws EXCEPT ![win] =
                   [state |-> "open", key |-> key, pos |-> pos,
                    height |-> initialHeight, loaded |-> FALSE,
                    messages |-> <<msg>>, onAppend |-> FALSE]]]

\* what showNotification does to the registry, the windows and the clock
Shows(key, msg) ==
    /\ HasLiveEntry(activeWindows, wins, key) \/ FreeWins(wins) # {}
    /\ LET fresh == ~HasLiveEntry(activeWindows, wins, key)
           r == IF fresh
                THEN ShowCreateOp(activeWindows, wins, lastDraggedPos, key, msg)
                ELSE ShowAppendOp(activeWindows, wins, key, msg)
       IN /\ activeWindows' = r.aw
          /\ wins' = r.ws
          /\ delivered' = Restrict(Deliver(delivered, key, msg, fresh), KeySet(r.aw))
    /\ clock' = clock + 1

ShowNotification(key, msg) ==
    /\ Shows(key, msg)
    /\ UNCHANGED <<lastDraggedPos, otherVars>>

\* the bookkeeping of the history variables when entries are removed
Forget(aw1) == delivered' = Restrict(delivered, KeySet(aw1))

(***************************************************************************)
(* closeNotification(_, id), also the DMOVERLAY_CLOSE handler              *)
(***************************************************************************)
CloseNotification(id) ==
    LET r == CloseNotificationOp(activeWindows, wins, id) IN
    /\ activeWindows' = r.aw
    /\ wins' = r.ws
    /\ Forget(r.aw)
    /\ UNCHANGED <<lastDraggedPos, clock, otherVars>>

(***************************************************************************)
(* closeAll()                                                              *)
(***************************************************************************)
\* a closeAll that forgets the entries and closes no window
CloseAllOpForget(aw, ws) == [aw |-> <<>>, ws |-> ws]

CloseAllOp(aw, ws) ==
    [aw |-> <<>>,
     ws |-> [w \in DOMAIN ws |->
                IF /\ \E i \in 1..Len(aw) : aw[i].win = w
                   /\ ~IsDestroyed(ws, w)
                THEN WinClose(ws, w)[w] ELSE ws[w]]]

CloseAll ==
    LET r == CloseAllOp(activeWindows, wins) IN
    /\ activeWindows' = r.aw
    /\ wins' = r.ws
    /\ Forget(r.aw)
    /\ UNCHANGED <<lastDraggedPos, clock, otherVars>>

(***************************************************************************)
(* win.on("closed"): window w is destroyed and its callback runs           *)
(***************************************************************************)
WindowClosedOp(aw, ws, w) ==
    LET i == IndexOf(aw, ws[w].key)
        aw1 == MapDelete(aw, ws[w].key)
        ws1 == [ws EXCEPT ![w] = FreeWin]
        \* the entry deleted may own another window, which stays on screen
        ws2 == IF i # 0 /\ aw[i].win # w
               THEN [ws1 EXCEPT ![aw[i].win] = Detached(ws[aw[i].win], "orphan")]
               ELSE ws1
    IN [aw |-> aw1, ws |-> RepositionWindows(aw1, ws2)]

\* no render surface is sending or about to close
NoSurf == [sending |-> {}, timers |-> {}]

\* the render surface of window w is gone with the window
SurfGone(sf, w) == [sending |-> sf.sending \ {w}, timers |-> sf.timers \ {w}]

\* window w is destroyed: a reply it sent that the main process has not
\* received yet is lost with its webContents, and the handlers that hold w as
\* notifWin hold a destroyed window (Gone) from now on
Gone == -1

RepliesGone(rs, w) ==
    [i \in 1..Len(rs) |->
        LET r == rs[i]
            r1 == IF r.origin = w
                  THEN [r EXCEPT !.origin = Gone,
                                 !.pc = IF r.pc = "sent" THEN "lost" ELSE @]
                  ELSE r
        IN IF r1.notifWin = w THEN [r1 EXCEPT !.notifWin = Gone] ELSE r1]

WindowClosed(w) ==
    /\ wins[w].state # "free"
    /\ LET r == WindowClosedOp(activeWindows, wins, w) IN
       /\ activeWindows' = r.aw
       /\ wins' = r.ws
       /\ Forget(r.aw)
    /\ surf' = SurfGone(surf, w)
    /\ replies' = RepliesGone(replies, w)
    /\ UNCHANGED <<lastDraggedPos, clock, resizeVars, auxVars, plugVars>>

(***************************************************************************)
(* win.webContents.on("did-finish-load") of window w                       *)
(***************************************************************************)
\* the page's script has run when did-finish-load is emitted; its listener
\* is kept for the windows that can be sent a message
DidFinishLoadOp(aw, ws, w) ==
    RepositionWindows(aw, [ws EXCEPT ![w].loaded = TRUE,
                                     ![w].onAppend = (ws[w].state = "open")])

\* the inline script of the page of window w runs to its end, which is
\* before did-finish-load is emitted
ScriptRuns(w) ==
    /\ wins[w].state = "open"
    /\ ~wins[w].loaded
    /\ ~wins[w].onAppend
    /\ wins' = [wins EXCEPT ![w].onAppend = TRUE]
    /\ UNCHANGED <<activeWindows, lastDraggedPos, clock, delivered, otherVars>>

DidFinishLoad(w) ==
    /\ wins[w].state # "free"
    /\ ~wins[w].loaded
    /\ wins' = DidFinishLoadOp(activeWindows, wins, w)
    /\ UNCHANGED <<activeWindows, lastDraggedPos, clock, delivered, otherVars>>

(***************************************************************************)
(* ipcMain.on("DMOVERLAY_RESIZE") with payload {id: key, height}           *)
(***************************************************************************)
\* a resize that runs the layout pass whatever the height
ResizeAlwaysLayout(aw, ws, key, height) ==
    LET i == IndexOf(aw, key)
        h == NormalizeRequestedHeight(height)
    IN IF i = 0 \/ IsDestroyed(ws, aw[IndexOf(aw, key)].win)
       THEN [aw |-> aw, ws |-> ws]
       ELSE LET aw1 == [aw EXCEPT ![i].currentHeight = h]
            IN [aw |-> aw1,
                ws |-> RepositionWindows(aw1, [ws EXCEPT ![aw[i].win].height = h])]

\* a resize that runs no layout pass
ResizeNoLayout(aw, ws, key, height) ==
    LET i == IndexOf(aw, key)
        h == NormalizeRequestedHeight(height)
    IN IF i = 0 \/ IsDestroyed(ws, aw[IndexOf(aw, key)].win)
       THEN [aw |-> aw, ws |-> ws]
       ELSE IF aw[i].currentHeight = h
       THEN [aw |-> aw, ws |-> ws]
       ELSE [aw |-> [aw EXCEPT ![i].currentHeight = h],
             ws |-> [ws EXCEPT ![aw[i].win].height = h]]

ResizeOp(aw, ws, key, height) ==
    LET i == IndexOf(aw, key)
        h == NormalizeRequestedHeight(height)
    IN IF i = 0 \/ IsDestroyed(ws, aw[IndexOf(aw, key)].win)
       THEN [aw |-> aw, ws |-> ws]
       ELSE IF aw[i].currentHeight = h
       THEN [aw |-> aw, ws |-> ws]
       ELSE LET aw1 == [aw EXCEPT ![i].currentHeight = h]
            IN [aw |-> aw1,
                ws |-> RepositionWindows(aw1, [ws EXCEPT ![aw[i].win].height = h])]

Resize(key, height) ==
    LET r == ResizeOp(activeWindows, wins, key, height) IN
    /\ activeWindows' = r.aw
    /\ wins' = r.ws
    /\ UNCHANGED <<lastDraggedPos, clock, delivered, otherVars>>

\* the same handler, with the request written to the history
NoResize == [key |-> 0, height |-> NotFinite, before |-> 0]

ResizeRequest(key, height) ==
    LET r == ResizeOp(activeWindows, wins, key, height) IN
    /\ activeWindows' = r.aw
    /\ wins' = r.ws
    /\ lastResize' =
          [key |-> key, height |-> height,
           before |-> IF HasLiveEntry(activeWindows, wins, key)
                      THEN activeWindows[IndexOf(activeWindows, key)].currentHeight
                      ELSE 0]
    /\ UNCHANGED <<lastDraggedPos, clock, delivered, plugVars, replyVars, auxVars>>

(***************************************************************************)
(* win.on("moved"): the user dragged window w to position p, and           *)
(* updateDraggedPosition(key, win) runs                                    *)
(***************************************************************************)
\* a drag that is recorded on every entry
UpdateDraggedPositionAll(aw, key, p) ==
    [i \in 1..Len(aw) |-> [aw[i] EXCEPT !.manualPos = p]]

UpdateDraggedPositionOp(aw, key, p) ==
    LET i == IndexOf(aw, key)
    IN IF i # 0 THEN [aw EXCEPT ![i].manualPos = p] ELSE aw

Moved(w, p) ==
    /\ wins[w].state # "free"
    /\ wins[w].pos # p
    /\ wins' = [wins EXCEPT ![w].pos = IF wins[w].state = "closing" THEN NoPos
                                       ELSE p]
    /\ lastDraggedPos' = p
    /\ activeWindows' = UpdateDraggedPositionOp(activeWindows, wins[w].key, p)
    /\ savePosTimer' = ScheduleSaveState(savePosTimer)
    /\ UNCHANGED <<clock, delivered, resizeVars, plugVars, replyVars, html,
                   stateFile, writes, booted, started>>

(***************************************************************************)
(* Spec: the layout specification.                                         *)
(***************************************************************************)
(***************************************************************************)
(* The plugin (src/unnamed/part_001), which runs in the host application.  *)
(* The clock counts Date.now() in milliseconds from 1420070400000, the     *)
(* instant that generateNonce subtracts.                                   *)
(***************************************************************************)
\* the functions of MessageActions that the plugin looks for
PrimeFns == <<"jumpToPresent", "fetchMessages", "fetchLocalMessages",
              "fetchNewLocalMessages">>
AllActions == {"sendMessage"} \cup {PrimeFns[i] : i \in 1..4}

\* a host that offers everything
FullHost == [actions |-> AllActions, sound |-> TRUE]

\* a test that finds a channel warm for ever once it was primed
WarmAlways(lpa, channelId, now) == channelId \in DOMAIN lpa

\* a test that finds every channel cold
WarmNever(lpa, channelId, now) == FALSE

\* lastPrimedAt.get(channelId) ?? 0, and now - last < PRIME_TTL_MS: Date.now()
\* is more than PRIME_TTL_MS after 0, so a channel without timestamp is cold

WarmWithinTtl(lpa, channelId, now) ==
    channelId \in DOMAIN lpa /\ now - lpa[channelId] < PRIME_TTL_MS

\* the next function, from the i-th on, that primeChannel awaits; 5 when
\* there is none (jumpToPresent, the first, is not awaited)
NextAwaited(actions, i) ==
    IF \E j \in i..4 : PrimeFns[j] \in actions
    THEN CHOOSE j \in i..4 : /\ PrimeFns[j] \in actions
                             /\ \A m \in i..(j - 1) : PrimeFns[m] \notin actions
    ELSE 5

\* the calls made on MessageActions to prime: how often fn was called for
\* channelId
NoCalls == [k \in {} |-> 0]

Called(calls, channelId, fn) ==
    IF <<channelId, fn>> \in DOMAIN calls THEN calls[<<channelId, fn>>] ELSE 0

AddCall(calls, channelId, fn) ==
    [k \in DOMAIN calls \cup {<<channelId, fn>>} |->
        IF k = <<channelId, fn>> THEN Called(calls, channelId, fn) + 1
        ELSE calls[k]]

\* primeChannel from line 73 on: the channel is cold
PrimeChannelRun(st, actions, channelId, now, caller) ==
    LET jumped == IF PrimeFns[1] \in actions
                  THEN AddCall(st.calls, channelId, PrimeFns[1])
                  ELSE st.calls
        j == NextAwaited(actions, 2)
        lpa1 == [c \in DOMAIN st.lpa \cup {channelId} |->
                    IF c = channelId THEN now ELSE st.lpa[c]]
    IN IF j > 4
       THEN [lpa |-> lpa1, primes |-> st.primes, calls |-> jumped]
       ELSE [lpa |-> lpa1,
             primes |-> Append(st.primes,
                          [channelId |-> channelId, pc |-> j, caller |-> caller]),
             calls |-> AddCall(jumped, channelId, PrimeFns[j])]

\* primeChannel(channelId) up to its first await, on st = [lpa, primes, calls];
\* caller is the sendMessageSafe call that awaits it, 0 for void primeChannel
PrimeChannelOp(st, actions, channelId, now, caller) ==
    IF WarmWithinTtl(st.lpa, channelId, now) THEN st
    ELSE PrimeChannelRun(st, actions, channelId, now, caller)

PrimeState == [lpa |-> lastPrimedAt, primes |-> primes, calls |-> hostCalls]

SetPrimeState(st) ==
    /\ lastPrimedAt' = st.lpa
    /\ primes' = st.primes
    /\ hostCalls' = st.calls

\* the awaited call of the i-th suspended primeChannel settles (a rejection is
\* caught): the next function is called, or primeChannel returns
PrimeResume(i) ==
    /\ i \in 1..Len(primes)
    /\ LET t == primes[i]
           j == NextAwaited(host.actions, t.pc + 1)
       IN IF j > 4
          THEN /\ primes' = RemoveAt(primes, i)
               /\ UNCHANGED hostCalls
          ELSE /\ primes' = [primes EXCEPT ![i].pc = j]
               /\ hostCalls' = AddCall(hostCalls, t.channelId, PrimeFns[j])
    /\ UNCHANGED <<activeWindows, wins, lastDraggedPos, clock, delivered,
                   resizeVars, auxVars, replyVars, host, lastPrimedAt, sends, lastEvent>>

\* time passes
Tick(d) ==
    /\ clock' = clock + d
    /\ UNCHANGED <<activeWindows, wins, lastDraggedPos, delivered, otherVars>>

(***************************************************************************)
(* onMessageCreate(event).  An event is a record: optimistic; message, the *)
(* event has a message; guild, the message has a guild_id; currentUser,    *)
(* UserStore has a current user; author, "absent" when the message has no  *)
(* author object, else who the author is; channel, the message's           *)
(* channel_id.  User ids are snowflakes, as the host's are.                *)
(***************************************************************************)
Authors == {"absent", "self", "friend", "stranger"}

NoEvent == [seen |-> FALSE,
            event |-> [optimistic |-> FALSE, message |-> FALSE, guild |-> FALSE,
                       currentUser |-> FALSE, author |-> "absent", channel |-> 0],
            calls |-> <<>>, threw |-> FALSE]

\* a filter that lets everybody's direct messages through
PassesStrangers(event) ==
    /\ ~(event.optimistic \/ ~event.message)
    /\ ~event.guild
    /\ ~(~event.currentUser \/ event.author = "self")
    /\ event.author # "absent"

\* the event passes the returns of lines 198-210
Passes(event) ==
    /\ ~(event.optimistic \/ ~event.message)
    /\ ~event.guild
    /\ ~(~event.currentUser \/ event.author = "self")
    /\ event.author = "friend"

\* msg.author.id is read once there is a current user: a TypeError without
\* an author object, outside the try block
Throws(event) ==
    /\ ~(event.optimistic \/ ~event.message)
    /\ ~event.guild
    /\ event.currentUser
    /\ event.author = "absent"

OnMessageCreate(event) ==
    IF Passes(event)
    THEN /\ Shows(event.channel, clock)
         /\ SetPrimeState(PrimeChannelOp(PrimeState, host.actions,
                                          event.channel, clock, 0))
         /\ lastEvent' =
               [seen |-> TRUE, event |-> event, threw |-> FALSE,
                calls |-> (IF host.sound THEN <<"playOverlaySound">> ELSE <<>>)
                            \o <<"showNotification", "primeChannel">>]
         /\ UNCHANGED <<lastDraggedPos, resizeVars, auxVars, replyVars, host, sends>>
    ELSE /\ lastEvent' = [seen |-> TRUE, event |-> event, calls |-> <<>>,
                          threw |-> Throws(event)]
         /\ UNCHANGED <<activeWindows, wins, lastDraggedPos, clock, delivered,
                        resizeVars, auxVars, replyVars, host, primeVars, sends>>

(***************************************************************************)
(* sendMessageSafe(channelId, content).  A call is a record: nonce; pc,    *)
(* "prime" while it awaits primeChannel, "loop" in the loop over the       *)
(* attempts, "done" once it returned; idx, the index of the loop; tried,   *)
(* the attempts that were invoked and whether they raised; result.         *)
(***************************************************************************)
\* BigInt(Date.now() - 1420070400000) << 22n: the milliseconds in the bits
\* from 22 up, zeros in the 22 bits below; toString() is one to one
GenerateNonce(now) == [ms |-> now, low |-> 0]

NoNonce == [ms |-> 0, low |-> 0]

\* the number of calling conventions in attempts
Attempts == 4

\* lines 107-129: the call runs up to "await primeChannel(channelId)"; id is
\* the place of the call in sends
SendStartOp(st, actions, channelId, now, id) ==
    IF "sendMessage" \notin actions
    THEN [call |-> [channelId |-> channelId, nonce |-> NoNonce, pc |-> "done",
                    idx |-> 0, tried |-> <<>>, result |-> "false"],
          st |-> st]
    ELSE [call |-> [channelId |-> channelId, nonce |-> GenerateNonce(now),
                    pc |-> "prime", idx |-> 0, tried |-> <<>>,
                    result |-> "none"],
          st |-> PrimeChannelOp(st, actions, channelId, now, id)]

\* window.__dmOverlaySendMessage(channelId, content) is called
SendMessageSafe(channelId) ==
    LET r == SendStartOp(PrimeState, host.actions, channelId, clock,
                         Len(sends) + 1) IN
    /\ sends' = Append(sends, r.call)
    /\ SetPrimeState(r.st)
    /\ UNCHANGED <<activeWindows, wins, lastDraggedPos, clock, delivered,
                   resizeVars, auxVars, replyVars, host, lastEvent>>

\* the call awaits primeChannel no more
Primed(id) == \A i \in 1..Len(primes) : primes[i].caller # id

\* a turn of the loop that goes on to the next calling convention after a
\* success
AttemptOpGreedy(call, ok) ==
    LET tried == Append(call.tried, [variant |-> call.idx + 1, ok |-> ok]) IN
    IF call.idx + 1 >= Attempts
    THEN [call EXCEPT !.tried = tried, !.idx = @ + 1, !.pc = "done",
                      !.result = IF ok THEN "true" ELSE "false"]
    ELSE [call EXCEPT !.tried = tried, !.idx = @ + 1, !.pc = "loop"]

\* lines 139-151: one turn of the loop; ok when fn() neither raises nor
\* returns a promise that rejects
AttemptOp(call, ok) ==
    LET tried == Append(call.tried, [variant |-> call.idx + 1, ok |-> ok]) IN
    IF ok
    THEN [call EXCEPT !.tried = tried, !.pc = "done", !.result = "true"]
    ELSE IF call.idx + 1 >= Attempts
    THEN [call EXCEPT !.tried = tried, !.idx = @ + 1, !.pc = "done",
                      !.result = "false"]
    ELSE [call EXCEPT !.tried = tried, !.idx = @ + 1, !.pc = "loop"]

SendAttempt(id, ok) ==
    /\ id \in 1..Len(sends)
    /\ \/ sends[id].pc = "prime" /\ Primed(id)
       \/ sends[id].pc = "loop"
    /\ sends' = [sends EXCEPT ![id] = AttemptOp(sends[id], ok)]
    /\ UNCHANGED <<activeWindows, wins, lastDraggedPos, clock, delivered,
                   resizeVars, auxVars, replyVars, host, primeVars, lastEvent>>

(***************************************************************************)
(* Replies.  A reply is a record: origin, the window whose render surface  *)
(* sent it (Gone once that window is destroyed); key, its notificationId   *)
(* and channelId; pc, "sent" while the DMOVERLAY_REPLY message is on its   *)
(* way, "dispatch" while the handler awaits executeJavaScript, "done" when *)
(* the handler has returned, "lost" when the message went with its window; *)
(* notifWin, the window the handler holds; call, the sendMessageSafe call  *)
(* it started; result, what the handler got; sentTo, whether it sent       *)
(* DMOVERLAY_RESULT to the origin, to another window or to none.           *)
(***************************************************************************)
NoWin == 0

NewReply(w, key) ==
    [origin |-> w, key |-> key, pc |-> "sent", notifWin |-> NoWin, call |-> 0,
     result |-> "none", sentTo |-> "none"]

\* doSend() in the page of window w, with text in the input: the reply is
\* sent and the timer of doClose is set
DoSend(w) ==
    /\ wins[w].state \in {"open", "orphan"}
    /\ wins[w].loaded
    /\ w \notin surf.sending
    /\ surf' = [sending |-> surf.sending \cup {w},
                timers |-> surf.timers \cup {w}]
    /\ replies' = Append(replies, NewReply(w, wins[w].key))
    /\ UNCHANGED <<activeWindows, wins, lastDraggedPos, clock, delivered,
                   resizeVars, auxVars, plugVars>>

\* setTimeout(doClose, 10) of the page of window w fires, and the main
\* process handles its DMOVERLAY_CLOSE, which comes after its DMOVERLAY_REPLY
TimerClose(w) ==
    /\ w \in surf.timers
    /\ \A i \in 1..Len(replies) :
          ~(replies[i].origin = w /\ replies[i].pc = "sent")
    /\ LET r == CloseNotificationOp(activeWindows, wins, wins[w].key) IN
       /\ activeWindows' = r.aw
       /\ wins' = r.ws
       /\ Forget(r.aw)
    /\ surf' = [surf EXCEPT !.timers = @ \ {w}]
    /\ UNCHANGED <<lastDraggedPos, clock, resizeVars, auxVars, plugVars, replies>>

\* a handler that sends the result without asking notifWin.isDestroyed()
SendResultUnchecked(ws, r, value) ==
    [r EXCEPT !.pc = "done",
              !.result = IF value THEN "true" ELSE "false",
              !.sentTo = IF r.notifWin = NoWin THEN "none"
                         ELSE IF r.notifWin = r.origin THEN "origin"
                         ELSE "other"]

\* if (notifWin && !notifWin.isDestroyed())
\*     notifWin.webContents.send("DMOVERLAY_RESULT", value)
SendResult(ws, r, value) ==
    LET live == /\ r.notifWin # NoWin
                /\ r.notifWin # Gone
                /\ ~IsDestroyed(ws, r.notifWin)
    IN [r EXCEPT !.pc = "done",
                 !.result = IF value THEN "true" ELSE "false",
                 !.sentTo = IF ~live THEN "none"
                            ELSE IF r.notifWin = r.origin THEN "origin"
                            ELSE "other"]

\* activeWindows.get(data.notificationId)?.win
NotifWin(aw, ws, key) ==
    IF IndexOf(aw, key) = 0 THEN NoWin
    ELSE IF IsDestroyed(ws, aw[IndexOf(aw, key)].win) THEN Gone
    ELSE aw[IndexOf(aw, key)].win

\* what getDiscordWindow() finds: no window, a window without the send
\* function of the plugin, or one with it
Targets == {"none", "nofn", "plugin"}

\* lines 547-562: the handler of DMOVERLAY_REPLY up to its await
ReplyReceived(i, target) ==
    /\ i \in 1..Len(replies)
    /\ replies[i].pc = "sent"
    /\ LET r == [replies[i] EXCEPT
                    !.notifWin = NotifWin(activeWindows, wins, replies[i].key)]
           s == SendStartOp(PrimeState, host.actions, r.key, clock,
                            Len(sends) + 1)
       IN CASE target = "none" ->
                 /\ replies' = [replies EXCEPT ![i] = SendResult(wins, r, FALSE)]
                 /\ UNCHANGED <<sends, primeVars>>
            [] target = "nofn" ->
                 /\ replies' = [replies EXCEPT ![i] = [r EXCEPT !.pc = "dispatch"]]
                 /\ UNCHANGED <<sends, primeVars>>
            [] target = "plugin" ->
                 /\ replies' = [replies EXCEPT ![i] =
                                   [r EXCEPT !.pc = "dispatch",
                                             !.call = Len(sends) + 1]]
                 /\ sends' = Append(sends, s.call)
                 /\ SetPrimeState(s.st)
    /\ UNCHANGED <<activeWindows, wins, lastDraggedPos, clock, delivered,
                   resizeVars, auxVars, host, lastEvent, surf>>

\* lines 562-585: executeJavaScript settles; it resolves to what the send
\* function returned, to false without send function, or it rejects (err)
ReplyResult(i, err) ==
    /\ i \in 1..Len(replies)
    /\ replies[i].pc = "dispatch"
    /\ LET r == replies[i] IN
       /\ IF err \/ r.call = 0 THEN TRUE ELSE sends[r.call].pc = "done"
       /\ replies' = [replies EXCEPT ![i] =
             SendResult(wins, r,
                 ~err /\ r.call # 0 /\ sends[r.call].result = "true")]
    /\ UNCHANGED <<activeWindows, wins, lastDraggedPos, clock, delivered,
                   resizeVars, auxVars, plugVars, surf>>

\* the variables of the other specifications, at rest
Idle ==
    /\ lastResize = NoResize
    /\ host = FullHost
    /\ lastPrimedAt = [c \in {} |-> 0]
    /\ primes = <<>>
    /\ hostCalls = NoCalls
    /\ sends = <<>>
    /\ lastEvent = NoEvent
    /\ surf = NoSurf
    /\ replies = <<>>
    /\ html = NoHtml
    /\ savePosTimer = NoTimer
    /\ stateFile = FileOf(lastDraggedPos)
    /\ writes = <<>>
    /\ booted = TRUE
    /\ started = TRUE

Init ==
    /\ activeWindows = <<>>
    /\ wins = [w \in WinIds |-> FreeWin]
    /\ lastDraggedPos \in {NoPos} \cup PersistedPositions
    /\ delivered = [k \in {} |-> <<>>]
    /\ clock = 1
    /\ Idle

\* Conversation ids are opaque Map keys that the code only compares, so the
\* n-th message is taken from one of the first n conversations: every
\* behaviour is one of these with its conversations renamed.
Next ==
    \/ \E k \in Convs : clock <= MaxMsgs /\ k <= clock /\ ShowNotification(k, clock)
    \/ \E k \in Convs : CloseNotification(k)
    \/ CloseAll
    \/ \E w \in DOMAIN wins : WindowClosed(w)
    \/ \E w \in DOMAIN wins : DidFinishLoad(w)
    \/ \E k \in Convs, h \in ReqHeights : Resize(k, h)
    \/ \E w \in DOMAIN wins, p \in DragPositions : Moved(w, p)

Spec == Init /\ [][Next]_vars

(***************************************************************************)
(* SpecCap: the capacity specification, with more conversations than       *)
(* MAX_OVERLAY_WINDOWS.                                                    *)
(***************************************************************************)
InitCap ==
    /\ activeWindows = <<>>
    /\ wins = [w \in WinIdsCap |-> FreeWin]
    /\ lastDraggedPos = NoPos
    /\ delivered = [k \in {} |-> <<>>]
    /\ clock = 1
    /\ Idle

\* Conversation ids are opaque to the registry: a conversation that gets a new
\* overlay is taken to be the smallest one that has none.
Arrives(k) ==
    \/ k \in KeySet(activeWindows)
    \/ \A j \in ConvsCap : j < k => j \in KeySet(activeWindows)

\* the registry is full: in SpecCap the user resizes and drags overlays then
AtCapacity == Len(activeWindows) = MAX_OVERLAY_WINDOWS

NextCap ==
    \/ \E k \in ConvsCap : /\ clock <= MaxMsgsCap
                            /\ Arrives(k)
                            /\ ShowNotification(k, clock)
    \/ \E k \in ClosedCap : CloseNotification(k)
    \/ CloseAll
    \/ \E w \in DOMAIN wins : wins[w].state # "open" /\ WindowClosed(w)
    \/ \E k \in ClosedCap, h \in ReqHeightsCap : AtCapacity /\ Resize(k, h)
    \/ \E w \in DraggedCap, p \in DragPositions : AtCapacity /\ Moved(w, p)

SpecCap == InitCap /\ [][NextCap]_vars

(***************************************************************************)
(* SpecBuf: the message buffer specification, one conversation that gets   *)
(* more than MAX_RENDERED_MESSAGES messages.                               *)
(***************************************************************************)
InitBuf ==
    /\ activeWindows = <<>>
    /\ wins = [w \in WinIdsBuf |-> FreeWin]
    /\ lastDraggedPos = NoPos
    /\ clock = 1
    /\ delivered = [k \in {} |-> <<>>]
    /\ Idle

NextBuf ==
    \/ \E k \in ConvsBuf : clock <= MaxDelivered /\ ShowNotification(k, clock)
    \/ \E k \in ConvsBuf : CloseNotification(k)
    \/ \E w \in DOMAIN wins : WindowClosed(w)

SpecBuf == InitBuf /\ [][NextBuf]_vars

(***************************************************************************)
(* SpecRz: the resize specification, with requests below, inside and above *)
(* the limits and requests that are not numbers.                           *)
(***************************************************************************)
InitRz ==
    /\ activeWindows = <<>>
    /\ wins = [w \in WinIdsRz |-> FreeWin]
    /\ lastDraggedPos = NoPos
    /\ clock = 1
    /\ delivered = [k \in {} |-> <<>>]
    /\ Idle

NextRz ==
    \/ \E k \in ConvsRz : clock <= MaxMsgsRz /\ ShowNotification(k, clock)
    \/ \E k \in ConvsRz : CloseNotification(k)
    \/ \E w \in DOMAIN wins : WindowClosed(w)
    \/ \E w \in DOMAIN wins : DidFinishLoad(w)
    \/ \E k \in ConvsRz, h \in ReqHeightsRz : ResizeRequest(k, h)

SpecRz == InitRz /\ [][NextRz]_vars

(***************************************************************************)
(* SpecEv: the event filter specification, with every kind of event.       *)
(***************************************************************************)
\* an event without message has no guild_id and no author
EventsEv ==
    {e \in [optimistic : BOOLEAN, message : BOOLEAN, guild : BOOLEAN,
            currentUser : BOOLEAN, author : Authors, channel : ChansEv] :
        ~e.message => (~e.guild /\ e.author = "absent")}

\* a host with all of MessageActions and sounds, one with sendMessage only
HostsEv == {FullHost, [actions |-> {"sendMessage"}, sound |-> FALSE]}

InitEv ==
    /\ activeWindows = <<>>
    /\ wins = [w \in WinIdsEv |-> FreeWin]
    /\ lastDraggedPos = NoPos
    /\ clock = 1
    /\ delivered = [k \in {} |-> <<>>]
    /\ lastResize = NoResize
    /\ host \in HostsEv
    /\ lastPrimedAt = [c \in {} |-> 0]
    /\ primes = <<>>
    /\ hostCalls = NoCalls
    /\ sends = <<>>
    /\ lastEvent = NoEvent
    /\ surf = NoSurf
    /\ replies = <<>>
    /\ html = NoHtml
    /\ savePosTimer = NoTimer
    /\ stateFile = FileOf(lastDraggedPos)
    /\ writes = <<>>
    /\ booted = TRUE
    /\ started = TRUE

NextEv ==
    \/ \E event \in EventsEv : clock <= MaxMsgsEv /\ OnMessageCreate(event)
    \/ \E i \in 1..Len(primes) : PrimeResume(i)

SpecEv == InitEv /\ [][NextEv]_vars

(***************************************************************************)
(* SpecPr: the priming specification, with friends' messages, calls of the *)
(* send function, which primes too, and the clock.                         *)
(***************************************************************************)
FriendEventsPr ==
    {[optimistic |-> FALSE, message |-> TRUE, guild |-> FALSE,
      currentUser |-> TRUE, author |-> "friend", channel |-> c] : c \in ChansPr}

\* a host with all of MessageActions, one without sendMessage
HostsPr == {FullHost,
            [actions |-> AllActions \ {"sendMessage"}, sound |-> TRUE]}

\* the number of messages that were shown
Shown ==
    Cardinality({m \in (DOMAIN delivered) \X (1..(MaxMsgsPr + 1)) :
                    m[2] <= Len(delivered[m[1]])})

InitPr ==
    /\ activeWindows = <<>>
    /\ wins = [w \in WinIdsPr |-> FreeWin]
    /\ lastDraggedPos = NoPos
    /\ clock = 1
    /\ delivered = [k \in {} |-> <<>>]
    /\ lastResize = NoResize
    /\ host \in HostsPr
    /\ lastPrimedAt = [c \in {} |-> 0]
    /\ primes = <<>>
    /\ hostCalls = NoCalls
    /\ sends = <<>>
    /\ lastEvent = NoEvent
    /\ surf = NoSurf
    /\ replies = <<>>
    /\ html = NoHtml
    /\ savePosTimer = NoTimer
    /\ stateFile = FileOf(lastDraggedPos)
    /\ writes = <<>>
    /\ booted = TRUE
    /\ started = TRUE

NextPr ==
    \/ \E event \in FriendEventsPr :
          Shown < MaxMsgsPr /\ clock <= MaxClockPr /\ OnMessageCreate(event)
    \/ \E i \in 1..Len(primes) : PrimeResume(i)
    \/ \E d \in TickSteps : clock + d <= MaxClockPr /\ Tick(d)
    \/ \E c \in ChansPr : Len(sends) < MaxSendsPr /\ SendMessageSafe(c)

SpecPr == InitPr /\ [][NextPr]_vars

(***************************************************************************)
(* SpecSn: the sending specification, with calls of the send function in   *)
(* the same millisecond and in different ones.                             *)
(***************************************************************************)
InitSn ==
    /\ activeWindows = <<>>
    /\ wins = [w \in WinIdsPr |-> FreeWin]
    /\ lastDraggedPos = NoPos
    /\ clock = 1
    /\ delivered = [k \in {} |-> <<>>]
    /\ lastResize = NoResize
    /\ host \in HostsPr
    /\ lastPrimedAt = [c \in {} |-> 0]
    /\ primes = <<>>
    /\ hostCalls = NoCalls
    /\ sends = <<>>
    /\ lastEvent = NoEvent
    /\ surf = NoSurf
    /\ replies = <<>>
    /\ html = NoHtml
    /\ savePosTimer = NoTimer
    /\ stateFile = FileOf(lastDraggedPos)
    /\ writes = <<>>
    /\ booted = TRUE
    /\ started = TRUE

NextSn ==
    \/ \E c \in ChansSn : Len(sends) < MaxSendsSn /\ SendMessageSafe(c)
    \/ \E id \in 1..Len(sends), ok \in BOOLEAN : SendAttempt(id, ok)
    \/ \E i \in 1..Len(primes) : PrimeResume(i)
    \/ \E d \in TickStepsSn : clock + d <= MaxClockSn /\ Tick(d)

SpecSn == InitSn /\ [][NextSn]_vars

(***************************************************************************)
(* SpecRp: the reply specification, with replies from the render surfaces  *)
(* while windows are created, closed and resized.                          *)
(***************************************************************************)
\* a host with sendMessage and no function to prime
HostsRp == {[actions |-> {"sendMessage"}, sound |-> TRUE]}

InitRp ==
    /\ activeWindows = <<>>
    /\ wins = [w \in WinIdsRp |-> FreeWin]
    /\ lastDraggedPos = NoPos
    /\ clock = 1
    /\ delivered = [k \in {} |-> <<>>]
    /\ lastResize = NoResize
    /\ host \in HostsRp
    /\ lastPrimedAt = [c \in {} |-> 0]
    /\ primes = <<>>
    /\ hostCalls = NoCalls
    /\ sends = <<>>
    /\ lastEvent = NoEvent
    /\ surf = NoSurf
    /\ replies = <<>>
    /\ html = NoHtml
    /\ savePosTimer = NoTimer
    /\ stateFile = FileOf(lastDraggedPos)
    /\ writes = <<>>
    /\ booted = TRUE
    /\ started = TRUE

NextRp ==
    \/ \E k \in ConvsRp : clock <= MaxMsgsRp /\ ShowNotification(k, clock)
    \/ \E k \in ConvsRp : CloseNotification(k)
    \/ CloseAll
    \/ \E w \in DOMAIN wins : WindowClosed(w)
    \/ \E w \in DOMAIN wins : DidFinishLoad(w)
    \/ \E k \in ConvsRp, h \in ReqHeightsRp : Resize(k, h)
    \/ \E w \in DOMAIN wins : Len(replies) < MaxRepliesRp /\ DoSend(w)
    \/ \E w \in DOMAIN wins : TimerClose(w)
    \/ \E i \in 1..Len(replies), target \in Targets : ReplyReceived(i, target)
    \* a dispatch succeeds at its first calling convention or at none: the
    \* loop over the conventions is the matter of SpecSn
    \/ \E id \in 1..Len(sends), ok \in BOOLEAN :
          (ok => sends[id].tried = <<>>) /\ SendAttempt(id, ok)
    \/ \E i \in 1..Len(replies), err \in BOOLEAN : ReplyResult(i, err)

SpecRp == InitRp /\ [][NextRp]_vars

(***************************************************************************)
(* Properties.                                                             *)
(***************************************************************************)
EntryOf(aw, key) == aw[IndexOf(aw, key)]

\* the conversation has an entry whose window is not destroyed
Tracked(key) ==
    \E i \in 1..Len(activeWindows) :
        /\ activeWindows[i].channelId = key
        /\ wins[activeWindows[i].win].state # "free"

\* the windows that exist
Existing(ws) == {w \in DOMAIN ws : ws[w].state # "free"}

\* C1: the registry never holds more than MAX_OVERLAY_WINDOWS entries.
CapacityBound == Len(activeWindows) <= MAX_OVERLAY_WINDOWS

\* the registry is full and holds the conversation that arrived after it filled
CapacityReached ==
    /\ Len(activeWindows) = MAX_OVERLAY_WINDOWS
    /\ (MAX_OVERLAY_WINDOWS + 1) \in KeySet(activeWindows)

\* C2: when a conversation without entry arrives at a full registry, exactly
\* the entry with the oldest lastTimestamp (last creation or append) leaves the
\* registry and its window is closed; the entry updated last stays.
EvictsLeastRecent ==
    [][\A k \in ConvsCap :
         (/\ Len(activeWindows) = MAX_OVERLAY_WINDOWS
          /\ k \notin KeySet(activeWindows)
          /\ ShowNotification(k, clock))
         => \E i \in 1..Len(activeWindows) :
               LET old == activeWindows[i] IN
               /\ \A j \in 1..Len(activeWindows) :
                      old.lastTimestamp <= activeWindows[j].lastTimestamp
               /\ KeySet(activeWindows') =
                      (KeySet(activeWindows) \ {old.channelId}) \cup {k}
               /\ wins'[old.win].state = "closing"
               /\ \A j \in 1..Len(activeWindows) :
                      j # i => wins'[activeWindows[j].win].state = "open"
       ]_vars

\* c1..c5 opened in this order, c1 got a second message, c6 arrived: c2 left
EvictedSecondOldest ==
    /\ Keys(activeWindows) = <<3, 4, 5, 1, 6>>
    /\ Len(EntryOf(activeWindows, 1).messages) = 2
    /\ \E w \in DOMAIN wins : wins[w].state = "closing" /\ wins[w].key = 2

\* C3: the registry holds one entry per conversation id, and a message for a
\* conversation whose entry has a live window is appended to that entry: no
\* window is created and the entry keeps its window.
OneOverlayPerConversation ==
    [][/\ \A i, j \in 1..Len(activeWindows') :
            activeWindows'[i].channelId = activeWindows'[j].channelId => i = j
       /\ \A k \in Convs :
            (clock' # clock /\ Tracked(k) /\ ShowNotification(k, clock))
            => /\ Existing(wins') = Existing(wins)
               /\ Len(activeWindows') = Len(activeWindows)
               /\ k \in KeySet(activeWindows')
               /\ EntryOf(activeWindows', k).win = EntryOf(activeWindows, k).win
               /\ EntryOf(activeWindows', k).messages =
                      Append(EntryOf(activeWindows, k).messages, clock)
      ]_vars

\* an entry that was appended to, next to another entry
AppendedToOverlay ==
    \E i, j \in 1..Len(activeWindows) :
        i # j /\ Len(activeWindows[i].messages) >= 2

\* the last n elements of a sequence
LastN(s, n) == SubSeq(s, Len(s) - n + 1, Len(s))

Min(a, b) == IF a < b THEN a ELSE b

\* C4: the buffer of every entry holds between 1 and MAX_RENDERED_MESSAGES
\* messages, and they are the last min(n, MAX_RENDERED_MESSAGES) of the n
\* messages the entry was given since its creation, in arrival order.
BufferIsRecentSuffix ==
    \A i \in 1..Len(activeWindows) :
        LET st == activeWindows[i]
            given == delivered[st.channelId]
        IN /\ Len(st.messages) >= 1
           /\ Len(st.messages) <= MAX_RENDERED_MESSAGES
           /\ st.messages = LastN(given, Min(Len(given), MAX_RENDERED_MESSAGES))

\* an entry that was given more messages than the buffer keeps
BufferTrimmed ==
    \E i \in 1..Len(activeWindows) :
        Len(delivered[activeWindows[i].channelId]) > MAX_RENDERED_MESSAGES + 1

\* C5: a second closeNotification for the same id changes neither the registry
\* nor any window.
CloseTwiceIsCloseOnce ==
    \A id \in Convs :
        LET once == CloseNotificationOp(activeWindows, wins, id)
            twice == CloseNotificationOp(once.aw, once.ws, id)
        IN twice = once

\* a conversation was closed (its window is still closing) while another
\* overlay is in the automatic layout
ClosedNextToOverlay ==
    /\ \E w \in DOMAIN wins :
          wins[w].state = "closing" /\ wins[w].key \notin KeySet(activeWindows)
    /\ \E i \in 1..Len(activeWindows) : activeWindows[i].manualPos = NoPos

(***************************************************************************)
(* The stacked layout, stated without the walk of repositionWindows.       *)
(***************************************************************************)
\* entry i takes part in the automatic layout
AutoLive(aw, ws, i) == aw[i].manualPos = NoPos /\ ws[aw[i].win].state # "free"

\* the number of entries of the automatic layout before entry i
AutoBefore(aw, ws, i) == Cardinality({j \in 1..(i - 1) : AutoLive(aw, ws, j)})

\* the sum of their heights
RECURSIVE HeightBefore(_, _, _)
HeightBefore(aw, ws, i) ==
    IF i <= 1 THEN 0
    ELSE HeightBefore(aw, ws, i - 1)
            + (IF AutoLive(aw, ws, i - 1) THEN aw[i - 1].currentHeight ELSE 0)

StackSlot(aw, ws, i) ==
    << workAreaSize.width - WINDOW_WIDTH - WINDOW_MARGIN,
       workAreaSize.height - WINDOW_MARGIN - HeightBefore(aw, ws, i)
           - aw[i].currentHeight - AutoBefore(aw, ws, i) * WINDOW_SPACING >>

\* every window of the automatic layout is where a layout pass puts it
AtLayout(aw, ws) == RepositionWindows(aw, ws) = ws

\* the step creates an entry: its window did not exist before
Creates ==
    \E i \in 1..Len(activeWindows') : wins[activeWindows'[i].win].state = "free"

\* the listed registry mutations, a drag apart: an entry comes or goes, a
\* message is appended, a height changes
Unpinned(aw) == [i \in 1..Len(aw) |-> [aw[i] EXCEPT !.manualPos = NoPos]]

Mutates == Unpinned(activeWindows') # Unpinned(activeWindows)

\* C6 as claimed: an overlay created while a position dragged in this run is
\* recorded has no override.
CreatedAfterDragHasNoOverride ==
    [][\A k \in Convs :
         (/\ lastDraggedPos \in DragPositions
          /\ k \notin KeySet(activeWindows)
          /\ k \in KeySet(activeWindows'))
         => EntryOf(activeWindows', k).manualPos = NoPos
      ]_vars

\* C6, amended: a drag of a window records the override on the entry of the
\* window's conversation and on no other entry, and an entry that is created
\* starts with the last dragged position as its override and its window there;
\* it has no override when no position was dragged or persisted.
DragOverridesOneEntry ==
    [][/\ \A w \in DOMAIN wins, p \in DragPositions :
            (lastDraggedPos' = p /\ clock' = clock /\ Moved(w, p)) =>
              /\ Keys(activeWindows') = Keys(activeWindows)
              /\ \A i \in 1..Len(activeWindows) :
                    activeWindows'[i].manualPos =
                        IF activeWindows[i].channelId = wins[w].key
                        THEN p ELSE activeWindows[i].manualPos
       /\ activeWindows' # activeWindows =>
            \A k \in Convs :
               (k \notin KeySet(activeWindows) /\ k \in KeySet(activeWindows'))
               => /\ EntryOf(activeWindows', k).manualPos = lastDraggedPos
                  /\ lastDraggedPos # NoPos =>
                        wins'[EntryOf(activeWindows', k).win].pos = lastDraggedPos
      ]_vars

\* a dragged overlay next to an older overlay without override and a newer
\* overlay that started at the dragged position
DraggedBetweenOverlays ==
    \E i, j, k \in 1..Len(activeWindows) :
        /\ i < j /\ j < k
        /\ activeWindows[i].manualPos = NoPos
        /\ activeWindows[j].manualPos \in DragPositions
        /\ activeWindows[k].manualPos = activeWindows[j].manualPos
        /\ wins[activeWindows[k].win].pos = activeWindows[k].manualPos

\* C7: no step but the drag of the window itself changes the position of the
\* window of an entry that has an override, or the override.
OverridePinned ==
    [][\A i \in 1..Len(activeWindows) :
         LET st == activeWindows[i] IN
         (/\ st.manualPos # NoPos
          /\ wins[st.win].state = "open"
          /\ wins'[st.win].state = "open"
          /\ ~ \E w \in DOMAIN wins, p \in DragPositions :
                  wins[w].key = st.channelId /\ Moved(w, p))
         => /\ wins'[st.win].pos = wins[st.win].pos
            /\ EntryOf(activeWindows', st.channelId).manualPos = st.manualPos
      ]_vars

\* a layout pass ran while an entry had its override: the entry after it is in
\* the first slot of the stack, the dragged window where it was dragged
PassedOverOverride ==
    \E i, j \in 1..Len(activeWindows) :
        /\ i < j
        /\ activeWindows[i].manualPos \in DragPositions
        /\ wins[activeWindows[i].win].pos = activeWindows[i].manualPos
        /\ activeWindows[j].manualPos = NoPos
        /\ activeWindows[j].currentHeight # WINDOW_MIN_HEIGHT
        /\ wins[activeWindows[j].win].pos =
               << workAreaSize.width - WINDOW_WIDTH - WINDOW_MARGIN,
                  workAreaSize.height - WINDOW_MARGIN
                      - activeWindows[j].currentHeight >>

LayoutPassStacks ==
    LET after == RepositionWindows(activeWindows, wins) IN
    /\ \A i \in 1..Len(activeWindows) :
          AutoLive(activeWindows, wins, i) =>
            after[activeWindows[i].win] =
              [wins[activeWindows[i].win] EXCEPT
                  !.pos = StackSlot(activeWindows, wins, i)]
    /\ \A w \in DOMAIN wins :
          (~ \E i \in 1..Len(activeWindows) :
                activeWindows[i].win = w /\ AutoLive(activeWindows, wins, i))
          => after[w] = wins[w]

\* a dragged overlay, then two stacked ones of different heights, all placed
StackedAfterOverride ==
    /\ Len(activeWindows) = 3
    /\ activeWindows[1].manualPos # NoPos
    /\ activeWindows[2].manualPos = NoPos
    /\ activeWindows[3].manualPos = NoPos
    /\ activeWindows[2].currentHeight # activeWindows[3].currentHeight
    /\ wins[activeWindows[2].win].pos = StackSlot(activeWindows, wins, 2)
    /\ wins[activeWindows[3].win].pos = StackSlot(activeWindows, wins, 3)

\* the bottom edge of the slot a layout pass gives entry i
BottomAfterPass(i) ==
    RepositionWindows(activeWindows, wins)[activeWindows[i].win].pos[2]
        + activeWindows[i].currentHeight

\* C10 as claimed: a layout pass gives the first slot (index 0, nothing
\* stacked below) to the most recently updated entry of the automatic layout.
MostRecentGetsFirstSlot ==
    \A i \in 1..Len(activeWindows) :
        (/\ AutoLive(activeWindows, wins, i)
         /\ \A j \in 1..Len(activeWindows) :
               AutoLive(activeWindows, wins, j) =>
                 activeWindows[j].lastTimestamp <= activeWindows[i].lastTimestamp)
        => BottomAfterPass(i) = workAreaSize.height - WINDOW_MARGIN

\* C10, amended: a layout pass walks the entries least recently updated
\* first: the least recently created or appended entry of the automatic
\* layout gets the first slot, and an entry updated later is stacked after
\* (above) every entry updated before it.
LeastRecentGetsFirstSlot ==
    \A i \in 1..Len(activeWindows) :
        AutoLive(activeWindows, wins, i) =>
          /\ (\A j \in 1..Len(activeWindows) :
                 AutoLive(activeWindows, wins, j) =>
                   activeWindows[i].lastTimestamp <= activeWindows[j].lastTimestamp)
              => BottomAfterPass(i) = workAreaSize.height - WINDOW_MARGIN
          /\ \A j \in 1..Len(activeWindows) :
                (/\ AutoLive(activeWindows, wins, j)
                 /\ activeWindows[i].lastTimestamp < activeWindows[j].lastTimestamp)
                => BottomAfterPass(j) < BottomAfterPass(i) - activeWindows[i].currentHeight

\* an entry that was appended to is stacked, by a layout pass, above an entry
\* created after it
PromotedAboveNewer ==
    \E i, j \in 1..Len(activeWindows) :
        /\ i < j
        /\ AutoLive(activeWindows, wins, i) /\ AutoLive(activeWindows, wins, j)
        /\ Len(activeWindows[j].messages) = 2
        /\ Head(activeWindows[j].messages) < Head(activeWindows[i].messages)
        /\ AtLayout(activeWindows, wins)
        /\ wins[activeWindows[j].win].pos[2] < wins[activeWindows[i].win].pos[2]

(***************************************************************************)
(* Heights.                                                                *)
(***************************************************************************)
\* the height the claim gives for a request
ClaimedHeight(h) ==
    IF h = NotFinite THEN WINDOW_MIN_HEIGHT
    ELSE IF h[1] < WINDOW_MIN_HEIGHT THEN WINDOW_MIN_HEIGHT
    ELSE IF h[1] > WINDOW_MAX_HEIGHT THEN WINDOW_MAX_HEIGHT
    ELSE h[1]

\* C11: every entry's currentHeight lies in WINDOW_MIN_HEIGHT..WINDOW_MAX_HEIGHT,
\* an entry is created at the minimum, and a resize request for an entry with
\* a live window stores the minimum for a request below it or not a finite
\* number, the maximum for a request above it, the request otherwise.
HeightsClamped ==
    [][/\ \A i \in 1..Len(activeWindows') :
            /\ activeWindows'[i].currentHeight >= WINDOW_MIN_HEIGHT
            /\ activeWindows'[i].currentHeight <= WINDOW_MAX_HEIGHT
            /\ wins[activeWindows'[i].win].state = "free"
                 => activeWindows'[i].currentHeight = WINDOW_MIN_HEIGHT
       /\ \A k \in ConvsRz, h \in ReqHeightsRz :
            (Tracked(k) /\ ResizeRequest(k, h))
            => EntryOf(activeWindows', k).currentHeight = ClaimedHeight(h)
      ]_vars

\* an overlay at the maximum, after a request above it, next to an overlay that
\* a request that is no number took from 300 to the minimum
ClampedBothWays ==
    /\ lastResize.height = NotFinite
    /\ lastResize.before = 300
    /\ \E i, j \in 1..Len(activeWindows) :
         /\ activeWindows[i].channelId = lastResize.key
         /\ activeWindows[i].currentHeight = WINDOW_MIN_HEIGHT
         /\ activeWindows[j].currentHeight = WINDOW_MAX_HEIGHT

\* C12: a resize request whose clamped height is the entry's current height,
\* or whose conversation has no entry with a live window, changes no entry, no
\* window size and no window position.
ResizeToSameIsNoOp ==
    [][\A k \in ConvsRz, h \in ReqHeightsRz :
         (/\ ResizeRequest(k, h)
          /\ \/ ~Tracked(k)
             \/ EntryOf(activeWindows, k).currentHeight = ClaimedHeight(h))
         => UNCHANGED <<activeWindows, wins>>
      ]_vars

\* the last request asked for the height the entry had, while a window that
\* was created since the last layout pass is not at its slot
SameHeightRequested ==
    /\ lastResize.key # 0
    /\ lastResize.before = ClaimedHeight(lastResize.height)
    /\ lastResize.before # WINDOW_MIN_HEIGHT
    /\ ~AtLayout(activeWindows, wins)

(***************************************************************************)
(* The event filter.                                                       *)
(***************************************************************************)
\* the condition of the claim
ClaimAccepts(event) ==
    /\ ~event.optimistic
    /\ event.message
    /\ ~event.guild
    /\ event.currentUser /\ event.author # "self"
    /\ event.author = "friend"

\* the number of times name is in the sequence of calls
Times(calls, name) == Cardinality({i \in 1..Len(calls) : calls[i] = name})

\* C13: onMessageCreate calls showNotification once and then primeChannel
\* once, the message reaching the registry, if and only if the event is not
\* optimistic, has a message, has no guild id, there is a current user who is
\* not the author, and the author is a friend; for every other event it
\* calls nothing, plays no sound and leaves the registry and the priming alone.
FilterAcceptsFriendDms ==
    [][\A event \in EventsEv :
         OnMessageCreate(event) =>
           IF ClaimAccepts(event)
           THEN /\ Times(lastEvent'.calls, "showNotification") = 1
                /\ Times(lastEvent'.calls, "primeChannel") = 1
                /\ lastEvent'.calls[Len(lastEvent'.calls)] = "primeChannel"
                /\ lastEvent'.calls[Len(lastEvent'.calls) - 1] = "showNotification"
                /\ event.channel \in KeySet(activeWindows')
                /\ EntryOf(activeWindows', event.channel).lastTimestamp = clock
                /\ lastPrimedAt'[event.channel] \in {clock} \cup
                       {lastPrimedAt[c] : c \in DOMAIN lastPrimedAt \cap {event.channel}}
           ELSE /\ lastEvent'.calls = <<>>
                /\ UNCHANGED <<activeWindows, wins, clock, delivered, primeVars>>
      ]_vars

\* a stranger's direct message was turned down after a friend's was shown
StrangerAfterFriend ==
    /\ lastEvent.seen
    /\ lastEvent.event.author = "stranger"
    /\ lastEvent.event.message /\ ~lastEvent.event.optimistic
    /\ ~lastEvent.event.guild /\ lastEvent.event.currentUser
    /\ lastEvent.calls = <<>>
    /\ Len(activeWindows) = 1
    /\ hostCalls # NoCalls

(***************************************************************************)
(* Priming.                                                                *)
(***************************************************************************)
\* the step calls primeChannel(c): a message of c was shown, or
\* sendMessageSafe was called for c and found sendMessage
PrimeCalled(c) ==
    \/ /\ c \in DOMAIN delivered'
       /\ c \in DOMAIN delivered => delivered'[c] # delivered[c]
    \/ /\ Len(sends') = Len(sends) + 1
       /\ sends'[Len(sends')].channelId = c
       /\ sends'[Len(sends')].nonce # NoNonce

\* a primeChannel call for c is suspended at an await
Suspended(c) == \E i \in 1..Len(primes) : primes[i].channelId = c

\* C14: primeChannel(c) called less than PRIME_TTL_MS after the call that
\* warmed c makes no host call and leaves c's timestamp alone; two friends'
\* messages on one conversation less than PRIME_TTL_MS apart (and no reply)
\* give one overlay with two buffered messages and one round of priming calls.
PrimeOncePerTtl ==
    [][/\ \A c \in ChansPr :
            (/\ PrimeCalled(c)
             /\ c \in DOMAIN lastPrimedAt
             /\ clock - lastPrimedAt[c] < PRIME_TTL_MS)
            => UNCHANGED primeVars
       /\ \A c \in DOMAIN delivered' :
            (/\ sends' = <<>>
             /\ Len(delivered'[c]) = 2
             /\ delivered'[c][2] - delivered'[c][1] < PRIME_TTL_MS)
            => /\ Cardinality({i \in 1..Len(activeWindows') :
                                  activeWindows'[i].channelId = c}) = 1
               /\ Cardinality({w \in DOMAIN wins' : wins'[w].key = c}) = 1
               /\ EntryOf(activeWindows', c).messages = delivered'[c]
               /\ lastPrimedAt'[c] = delivered'[c][1]
               /\ \A i \in 1..4 :
                    Called(hostCalls', c, PrimeFns[i]) =
                       IF /\ PrimeFns[i] \in host.actions
                          /\ \A j \in 1..Len(primes') :
                               primes'[j].channelId = c => primes'[j].pc >= i
                       THEN 1 ELSE 0
      ]_vars

\* the second message came one millisecond before the channel went cold, and
\* the one round of priming calls is over
SecondMessageStillWarm ==
    \E c \in DOMAIN delivered :
        /\ Len(delivered[c]) = 2
        /\ delivered[c][2] - delivered[c][1] = PRIME_TTL_MS - 1
        /\ Len(EntryOf(activeWindows, c).messages) = 2
        /\ primes = <<>>
        /\ \A i \in 1..4 : Called(hostCalls, c, PrimeFns[i]) = 1

\* C15 as claimed: a primeChannel call for a conversation that starts while
\* another one for it is suspended is skipped.
SecondPrimeAlwaysSkipped ==
    [][\A c \in ChansPr :
         (PrimeCalled(c) /\ Suspended(c)) => UNCHANGED primeVars
      ]_vars

\* C15, amended: a primeChannel call for a conversation that starts while
\* another one for it is suspended, less than PRIME_TTL_MS after that one
\* recorded its timestamp, is skipped: it makes no host call, is not queued,
\* and the sendMessageSafe that awaits it does not wait for the first call.
\* When the first call has been suspended for PRIME_TTL_MS or more, the second
\* call is not skipped: it records its own timestamp and makes its own calls.
SecondPrimeSkippedWithinTtl ==
    [][\A c \in ChansPr :
         (PrimeCalled(c) /\ Suspended(c)) =>
           IF clock - lastPrimedAt[c] < PRIME_TTL_MS
           THEN /\ UNCHANGED primeVars
                /\ \A i \in 1..Len(primes') : primes'[i].caller \notin
                       {id \in 1..Len(sends') : id > Len(sends)}
           ELSE /\ lastPrimedAt'[c] = clock
                /\ Called(hostCalls', c, PrimeFns[1]) =
                       Called(hostCalls, c, PrimeFns[1])
                         + (IF PrimeFns[1] \in host.actions THEN 1 ELSE 0)
                /\ host.actions = AllActions => Len(primes') = Len(primes) + 1
      ]_vars

\* sendMessageSafe called primeChannel while the priming for the friend's
\* message was suspended: it was skipped, and sendMessageSafe can go on
SendSkippedPrime ==
    /\ Len(sends) = 1
    /\ sends[1].pc = "prime"
    /\ Primed(1)
    /\ Suspended(sends[1].channelId)
    /\ Called(hostCalls, sends[1].channelId, PrimeFns[1]) = 1
    /\ clock - lastPrimedAt[sends[1].channelId] = PRIME_TTL_MS - 1

(***************************************************************************)
(* Sending.                                                                *)
(***************************************************************************)
\* the calls of sendMessageSafe that found MessageActions.sendMessage
Dispatching == {id \in 1..Len(sends) : sends[id].nonce # NoNonce}

AllRaised(tried) ==
    Len(tried) = Attempts /\ \A i \in 1..Len(tried) : ~tried[i].ok

\* C16: a call of sendMessageSafe that finds the host's sendMessage invokes
\* the calling conventions in their order, each at most once, none after the
\* first that does not raise, and returns true then; it returns false exactly
\* when all four have raised.
VariantsInOrderUntilSuccess ==
    \A id \in Dispatching :
        LET call == sends[id] IN
        /\ Len(call.tried) <= Attempts
        /\ \A i \in 1..Len(call.tried) : call.tried[i].variant = i
        /\ \A i \in 1..Len(call.tried) - 1 : ~call.tried[i].ok
        /\ call.result = "true" <=>
              (call.tried # <<>> /\ call.tried[Len(call.tried)].ok)
        /\ call.result = "false" <=> AllRaised(call.tried)
        /\ call.result # "none" <=> call.pc = "done"

\* one call has returned false after four conventions raised, another true
\* after three raised and the fourth did not
FourthVariantSucceeds ==
    \E i, j \in Dispatching :
        /\ sends[i].result = "false" /\ AllRaised(sends[i].tried)
        /\ sends[j].result = "true" /\ Len(sends[j].tried) = Attempts

\* nonces compare as the numbers ms * 2^22 + low
NonceLess(a, b) == a.ms < b.ms \/ (a.ms = b.ms /\ a.low < b.low)

\* C17: of two calls of sendMessageSafe, the later one has the strictly
\* larger nonce.
NoncesStrictlyIncrease ==
    \A i, j \in Dispatching :
        i < j => NonceLess(sends[i].nonce, sends[j].nonce)

(***************************************************************************)
(* Replies.                                                                *)
(***************************************************************************)
\* C18: a reply whose dispatch succeeded has had its one result message, with
\* value true, sent to the window that originated it.
SuccessReachesOrigin ==
    \A i \in 1..Len(replies) :
        (replies[i].pc = "done" /\ replies[i].result = "true")
            => replies[i].sentTo = "origin"

\* the result of reply i has reached the render surface that sent it
ResultArrived(i, value) ==
    /\ replies[i].pc = "done"
    /\ replies[i].sentTo = "origin"
    /\ replies[i].result = value

\* C19: a render surface that sent a reply asks for its close only after a
\* success result has arrived, and sends again only after a failure result;
\* after a failure result its input is enabled again.
SurfaceWaitsForResult ==
    [][/\ \A w \in DOMAIN wins :
            (w \in surf.sending /\ TimerClose(w)) =>
               \E i \in 1..Len(replies) :
                   replies[i].origin = w /\ ResultArrived(i, "true")
       /\ \A i \in 1..Len(replies') :
            (replies'[i].origin # Gone /\ ResultArrived(i, "false")')
               => replies'[i].origin \notin surf'.sending
      ]_vars

\* the handler of reply i sends the result, or finds none to send it to
Delivers(i) ==
    /\ replies[i].pc \in {"sent", "dispatch"}
    /\ Len(replies') = Len(replies)
    /\ replies'[i].pc = "done"

\* close() was called on the window that sent reply r, or it is destroyed
OriginClosed(r) ==
    IF r.origin = Gone THEN TRUE ELSE wins[r.origin].state = "closing"

InFlight == \E i \in 1..Len(replies) : replies[i].pc \in {"sent", "dispatch"}

\* C20 as claimed: when the window that sent a reply was closed before the
\* result is delivered, no result message is sent to any window and the
\* registry stays as it is.
ClosedOriginGetsNoResult ==
    [][\A i \in 1..Len(replies) :
         (Delivers(i) /\ OriginClosed(replies[i]))
            => (replies'[i].sentTo = "none" /\ UNCHANGED <<activeWindows, wins>>)
      ]_vars

\* C20, amended: delivering a result changes neither the registry nor a
\* window and raises nothing; the one message goes to the window the registry
\* held for the conversation when the handler started, if that window is not
\* destroyed, and to no window otherwise.  So none is sent for an origin that
\* was the registered window and has been destroyed, also when the
\* conversation has a new window by then; one is sent to an origin that is
\* closing and not yet destroyed, and one is sent to a new window of the
\* conversation that was registered before the handler started.  While a
\* reply is in flight, close, closeAll, resize and upsert can be processed.
ResultOnlyToLiveHeldWindow ==
    /\ [][\A i \in 1..Len(replies) :
            Delivers(i) =>
              LET r == replies[i]
                  held == IF r.pc = "sent"
                          THEN NotifWin(activeWindows, wins, r.key)
                          ELSE r.notifWin
              IN /\ UNCHANGED <<activeWindows, wins, surf>>
                 /\ replies'[i].pc = "done"
                 /\ replies'[i].sentTo =
                       IF held \in {NoWin, Gone} THEN "none"
                       ELSE IF held = r.origin THEN "origin" ELSE "other"
                 /\ r.origin = Gone => replies'[i].sentTo # "origin"
                 /\ replies'[i].sentTo = "other" =>
                       /\ ~IsDestroyed(wins, held)
                       /\ wins[held].key = r.key
         ]_vars
    /\ [](InFlight =>
            \A k \in ConvsRp :
               /\ ENABLED CloseNotification(k)
               /\ ENABLED CloseAll
               /\ \A h \in ReqHeightsRp : ENABLED Resize(k, h)
               /\ (HasLiveEntry(activeWindows, wins, k) \/ FreeWins(wins) # {})
                     => ENABLED ShowNotification(k, clock))

\* the window that sent the reply was destroyed while its dispatch went on,
\* the conversation has a new window since, and the successful result was sent
\* to no window
ResultDroppedNextToNewWindow ==
    \E i \in 1..Len(replies) :
        /\ replies[i].pc = "done"
        /\ replies[i].result = "true"
        /\ replies[i].origin = Gone
        /\ replies[i].notifWin = Gone
        /\ replies[i].sentTo = "none"
        /\ HasLiveEntry(activeWindows, wins, replies[i].key)

(***************************************************************************)
(* Ownership of the windows.                                               *)
(***************************************************************************)
\* C28: the 'closed' callback of a window removes only the entry that owns
\* that window, so every window that is neither destroyed nor asked to close
\* is the window of a registry entry, and a conversation has one such window
\* at most.
ClosedCallbackSparesNewEntry ==
    /\ \A w \in DOMAIN wins :
          wins[w].state \notin {"free", "closing"} =>
             \E i \in 1..Len(activeWindows) : activeWindows[i].win = w
    /\ \A v, w \in DOMAIN wins :
          (/\ v # w
           /\ wins[v].state \notin {"free", "closing"}
           /\ wins[w].state \notin {"free", "closing"})
          => wins[v].key # wins[w].key

\* C24: an event whose message has no author object is dropped by the filter:
\* the handler returns without raising and without a call to the registry.
MalformedEventIsFiltered ==
    (/\ lastEvent.seen
     /\ lastEvent.event.message
     /\ lastEvent.event.author = "absent")
    => (~lastEvent.threw /\ lastEvent.calls = <<>>)

(***************************************************************************)
(* The layout of the windows on the screen                                 *)
(***************************************************************************)
\* the registry entry that owns window w, or 0
OwnerOf(w) ==
    IF \E i \in 1..Len(activeWindows) : activeWindows[i].win = w
    THEN CHOOSE i \in 1..Len(activeWindows) : activeWindows[i].win = w
    ELSE 0

\* w is on the screen and no drag or saved position has placed it
ShownAuto(w) ==
    /\ wins[w].state \in {"open", "orphan"}
    /\ wins[w].loaded
    /\ wins[w].pos \notin DragPositions \cup PersistedPositions
    /\ OwnerOf(w) # 0 => activeWindows[OwnerOf(w)].manualPos = NoPos

VerticalOverlap(v, w) ==
    /\ wins[v].pos[2] < wins[w].pos[2] + wins[w].height
    /\ wins[w].pos[2] < wins[v].pos[2] + wins[v].height

\* C29: in every reachable state no two shown windows without a manual
\* position overlap vertically (windows that follow each other in the walk
\* of the layout being WINDOW_SPACING apart), whatever creations, appends,
\* resizes, closes and evictions led to the state.
AutoWindowsNeverOverlap ==
    \A v, w \in DOMAIN wins :
       (v # w /\ ShownAuto(v) /\ ShownAuto(w)) => ~VerticalOverlap(v, w)

(***************************************************************************)
(* SpecHtml: escapeHtml of template.ts, applied by generateHTML to the     *)
(* author's name.  A text is the sequence of its characters.               *)
(***************************************************************************)
MaxLenHtml == 4

\* the five characters that escapeHtml replaces, and three ordinary ones
\* from which the text of an entity can be written
HtmlChars == {"&", "<", ">", "\"", "'", "l", "t", ";"}

Texts == UNION {[1..n -> HtmlChars] : n \in 0..MaxLenHtml}

AMP == <<"&", "a", "m", "p", ";">>
LT == <<"&", "l", "t", ";">>
GT == <<"&", "g", "t", ";">>
QUOT == <<"&", "q", "u", "o", "t", ";">>
APOS == <<"&", "#", "0", "3", "9", ";">>

\* String.prototype.replace with a global pattern of one character
RECURSIVE ReplaceAll(_, _, _)
ReplaceAll(s, c, by) ==
    IF s = <<>> THEN <<>>
    ELSE (IF Head(s) = c THEN by ELSE <<Head(s)>>) \o ReplaceAll(Tail(s), c, by)

\* an escapeHtml that replaces the ampersand last
EscapeHtmlAmpLast(text) ==
    ReplaceAll(ReplaceAll(ReplaceAll(ReplaceAll(ReplaceAll(text,
        "<", LT), ">", GT), "\"", QUOT), "'", APOS), "&", AMP)

EscapeHtml(text) ==
    ReplaceAll(ReplaceAll(ReplaceAll(ReplaceAll(ReplaceAll(text,
        "&", AMP), "<", LT), ">", GT), "\"", QUOT), "'", APOS)

\* generateHTML escapes the author's name
GenerateHTML ==
    /\ ~html.done
    /\ html' = [html EXCEPT !.escaped = EscapeHtml(html.text), !.done = TRUE]
    /\ UNCHANGED <<activeWindows, wins, lastDraggedPos, clock, delivered,
                   resizeVars, plugVars, replyVars, saveVars, started>>

InitHtml ==
    /\ activeWindows = <<>>
    /\ wins = [w \in WinIds |-> FreeWin]
    /\ lastDraggedPos = NoPos
    /\ clock = 1
    /\ delivered = [k \in {} |-> <<>>]
    /\ lastResize = NoResize
    /\ host = FullHost
    /\ lastPrimedAt = [c \in {} |-> 0]
    /\ primes = <<>>
    /\ hostCalls = NoCalls
    /\ sends = <<>>
    /\ lastEvent = NoEvent
    /\ surf = NoSurf
    /\ replies = <<>>
    /\ html \in {[text |-> s, escaped |-> <<>>, done |-> FALSE] : s \in Texts}
    /\ savePosTimer = NoTimer
    /\ stateFile = FileOf(lastDraggedPos)
    /\ writes = <<>>
    /\ booted = TRUE
    /\ started = TRUE

SpecHtml == InitHtml /\ [][GenerateHTML]_vars

Entities == {AMP, LT, GT, QUOT, APOS}

\* the character that an entity stands for
CharOf(e) ==
    CASE e = AMP -> "&" [] e = LT -> "<" [] e = GT -> ">"
      [] e = QUOT -> "\"" [] e = APOS -> "'"

\* entity e is written in s from position i on
StartsAt(s, i, e) ==
    /\ i + Len(e) - 1 <= Len(s)
    /\ SubSeq(s, i, i + Len(e) - 1) = e

\* the entities of s replaced back, in one pass from left to right
RECURSIVE UnescapeFrom(_, _)
UnescapeFrom(s, i) ==
    IF i > Len(s) THEN <<>>
    ELSE IF \E e \in Entities : StartsAt(s, i, e)
         THEN LET e == CHOOSE e \in Entities : StartsAt(s, i, e)
              IN <<CharOf(e)>> \o UnescapeFrom(s, i + Len(e))
         ELSE <<s[i]>> \o UnescapeFrom(s, i + 1)

Unescape(s) == UnescapeFrom(s, 1)

\* C27: the output of escapeHtml holds no raw <, >, " or ', every & of it
\* starts one of the five entities, and replacing the entities back gives
\* the text that was escaped.
EscapeHtmlRoundTrip ==
    html.done =>
       /\ \A i \in 1..Len(html.escaped) :
             /\ html.escaped[i] \notin {"<", ">", "\"", "'"}
             /\ html.escaped[i] = "&" =>
                   \E e \in Entities : StartsAt(html.escaped, i, e)
       /\ Unescape(html.escaped) = html.text

\* a text that reads like an entity was escaped
EntityTextEscaped ==
    /\ html.done
    /\ html.text = LT
    /\ html.escaped = AMP \o <<"l", "t", ";">>

(***************************************************************************)
(* SpecSv: the persistence specification.  It starts before the module is  *)
(* initialised, with any state file; a process that quits is started again *)
(* with the file it left.                                                  *)
(***************************************************************************)
MaxMsgsSv == 2
MaxWritesSv == 1
ConvsSv == {1, 2}
WinIdsSv == {1, 2}
DragPositionsSv == {<<100, 200>>, <<110, 200>>}
\* the time that may pass in one step
ElapseSteps == {100, 150}

\* the values of x and y in the files the process may find
JVals == {JVal("number", 300), JVal("number", 400), JVal("numeral", 12),
          JVal("null", 0), JVal("text", 0), JVal("undefined", 0)}

Files ==
    {NoFile, [NoFile EXCEPT !.kind = "invalid"],
     [NoFile EXCEPT !.kind = "json"],
     [NoFile EXCEPT !.kind = "json", !.ldp = "null"]}
    \cup {[kind |-> "json", ldp |-> "object", x |-> x, y |-> y] :
             x \in JVals, y \in JVals}

\* line 409: loadPersistedState() on module initialization
ModuleInit ==
    /\ ~booted
    /\ booted' = TRUE
    /\ lastDraggedPos' = LoadPersistedState(stateFile, lastDraggedPos)
    /\ UNCHANGED <<activeWindows, wins, clock, delivered, resizeVars, plugVars,
                   replyVars, html, savePosTimer, stateFile, writes, started>>

\* time passes while the timeout of scheduleSaveState is pending; a timeout
\* that is due runs when the event loop comes to it
Elapse(d) ==
    /\ savePosTimer > 0
    /\ savePosTimer' = IF savePosTimer > d THEN savePosTimer - d ELSE 0
    /\ UNCHANGED <<activeWindows, wins, lastDraggedPos, clock, delivered,
                   resizeVars, plugVars, replyVars, html, stateFile, writes,
                   booted, started>>

\* lines 394-404: the callback of the timeout; ok: writeFileSync succeeds
SaveTimerFires(ok) ==
    /\ savePosTimer = 0
    /\ savePosTimer' = NoTimer
    /\ writes' = Append(writes, lastDraggedPos)
    /\ stateFile' = IF ok THEN WriteState(lastDraggedPos) ELSE stateFile
    /\ UNCHANGED <<activeWindows, wins, lastDraggedPos, clock, delivered,
                   resizeVars, plugVars, replyVars, html, booted, started>>

\* the process ends: the module's variables and its windows are gone, the
\* file stays
Quit ==
    /\ booted
    /\ booted' = FALSE
    /\ activeWindows' = <<>>
    /\ wins' = [w \in DOMAIN wins |-> FreeWin]
    /\ lastDraggedPos' = NoPos
    /\ clock' = 1
    /\ delivered' = [k \in {} |-> <<>>]
    /\ savePosTimer' = NoTimer
    /\ writes' = <<>>
    /\ surf' = NoSurf
    /\ replies' = <<>>
    /\ UNCHANGED <<resizeVars, plugVars, html, stateFile, started>>

InitSv ==
    /\ activeWindows = <<>>
    /\ wins = [w \in WinIdsSv |-> FreeWin]
    /\ lastDraggedPos = NoPos
    /\ clock = 1
    /\ delivered = [k \in {} |-> <<>>]
    /\ lastResize = NoResize
    /\ host = FullHost
    /\ lastPrimedAt = [c \in {} |-> 0]
    /\ primes = <<>>
    /\ hostCalls = NoCalls
    /\ sends = <<>>
    /\ lastEvent = NoEvent
    /\ surf = NoSurf
    /\ replies = <<>>
    /\ html = NoHtml
    /\ savePosTimer = NoTimer
    /\ stateFile \in Files
    /\ writes = <<>>
    /\ booted = FALSE
    /\ started = TRUE

NextSv ==
    \/ ModuleInit
    \/ Quit
    \/ \E k \in ConvsSv :
          booted /\ clock <= MaxMsgsSv /\ ShowNotification(k, clock)
    \/ \E w \in DOMAIN wins, p \in DragPositionsSv : booted /\ Moved(w, p)
    \/ \E d \in ElapseSteps : Elapse(d)
    \/ \E ok \in BOOLEAN : Len(writes) < MaxWritesSv /\ SaveTimerFires(ok)

SpecSv == InitSv /\ [][NextSv]_vars

\* a step of the 'moved' handler
Dragged ==
    \/ lastDraggedPos' # lastDraggedPos /\ lastDraggedPos' # NoPos /\ booted
    \/ \E w \in DOMAIN wins :
          /\ wins[w].state # "free"
          /\ wins'[w].pos # wins[w].pos
          /\ wins'[w].pos \in DragPositionsSv

\* C22: each drag (re)starts the one timer of SAVE_DELAY_MS and writes
\* nothing; a write happens only when that timer has run out, that is when no
\* drag came for SAVE_DELAY_MS, it is one write, and it holds the position
\* of the last drag.
DebouncedSave ==
    /\ [][Dragged => /\ savePosTimer' = SAVE_DELAY_MS
                     /\ UNCHANGED <<writes, stateFile>>]_vars
    /\ [][(writes' # writes /\ booted') =>
             /\ savePosTimer = 0
             /\ savePosTimer' = NoTimer
             /\ writes' = Append(writes, lastDraggedPos)
             /\ stateFile' \in {stateFile, WriteState(lastDraggedPos)}]_vars
    /\ [][(stateFile' # stateFile) => writes' # writes]_vars
    /\ [](savePosTimer # NoTimer => lastDraggedPos # NoPos)

\* two windows were dragged, to different places, and one write was made,
\* of the place of the second drag
BurstWrittenOnce ==
    /\ wins[1].pos = <<100, 200>>
    /\ wins[2].pos = <<110, 200>>
    /\ lastDraggedPos = <<110, 200>>
    /\ writes = << <<110, 200>> >>
    /\ stateFile = WriteState(<<110, 200>>)
    /\ savePosTimer = NoTimer

\* the document has no position: lastDraggedPos is absent or null, or x or
\* y is null or not a number
Malformed(file) ==
    /\ file.kind = "json"
    /\ \/ file.ldp # "object"
       \/ file.x.t # "number"
       \/ file.y.t # "number"

\* C26: loading a missing file, a file that is no JSON or a malformed file
\* leaves lastDraggedPos unset; loading a file that the debounced save wrote
\* gives the saved position.
LoadToleratesBadFile ==
    [][(~booted /\ booted') =>
          /\ (stateFile.kind # "json" \/ Malformed(stateFile))
                => lastDraggedPos' = NoPos
          /\ \A p \in DragPositionsSv :
                stateFile = WriteState(p) => lastDraggedPos' = p]_vars

(***************************************************************************)
(* SpecSt: the plugin is started and stopped while overlays are shown and  *)
(* replies are under way, on a host without MessageActions.sendMessage.    *)
(***************************************************************************)
MaxMsgsSt == 2
MaxRepliesSt == 1
ConvsSt == {1}
WinIdsSt == {1, 2}

\* a host whose MessageActions has no sendMessage
HostsSt == {[actions |-> {}, sound |-> TRUE]}

\* start(): the send function is set up and the plugin subscribes
Start ==
    /\ ~started
    /\ started' = TRUE
    /\ UNCHANGED <<activeWindows, wins, lastDraggedPos, clock, delivered,
                   resizeVars, plugVars, replyVars, html, saveVars>>

\* stop(): the plugin unsubscribes, deletes the send function and calls
\* Native.closeAll(); no message of the plugin comes after it
Stop ==
    LET r == CloseAllOp(activeWindows, wins) IN
    /\ started
    /\ started' = FALSE
    /\ activeWindows' = r.aw
    /\ wins' = r.ws
    /\ Forget(r.aw)
    /\ UNCHANGED <<lastDraggedPos, clock, resizeVars, plugVars, replyVars,
                   html, saveVars>>

InitSt ==
    /\ activeWindows = <<>>
    /\ wins = [w \in WinIdsSt |-> FreeWin]
    /\ lastDraggedPos = NoPos
    /\ clock = 1
    /\ delivered = [k \in {} |-> <<>>]
    /\ lastResize = NoResize
    /\ host \in HostsSt
    /\ lastPrimedAt = [c \in {} |-> 0]
    /\ primes = <<>>
    /\ hostCalls = NoCalls
    /\ sends = <<>>
    /\ lastEvent = NoEvent
    /\ surf = NoSurf
    /\ replies = <<>>
    /\ html = NoHtml
    /\ savePosTimer = NoTimer
    /\ stateFile = NoFile
    /\ writes = <<>>
    /\ booted = TRUE
    /\ started = FALSE

NextSt ==
    \/ Start
    \/ Stop
    \/ \E k \in ConvsSt :
          started /\ clock <= MaxMsgsSt /\ ShowNotification(k, clock)
    \/ \E k \in ConvsSt : CloseNotification(k)
    \/ \E w \in DOMAIN wins : WindowClosed(w)
    \/ \E w \in DOMAIN wins : DidFinishLoad(w)
    \/ \E w \in DOMAIN wins : Len(replies) < MaxRepliesSt /\ DoSend(w)
    \/ \E w \in DOMAIN wins : TimerClose(w)
    \/ \E i \in 1..Len(replies), target \in Targets :
          (target = "plugin" => started) /\ ReplyReceived(i, target)
    \/ \E i \in 1..Len(replies), err \in BOOLEAN : ReplyResult(i, err)

SpecSt == InitSt /\ [][NextSt]_vars

\* every window that an entry of the registry owns and that is not destroyed
Registered(w) ==
    /\ \E i \in 1..Len(activeWindows) : activeWindows[i].win = w
    /\ ~IsDestroyed(wins, w)

\* C23: closeAll leaves the registry empty and asks every window that was
\* registered and not destroyed to close; stop calls closeAll, so while the
\* plugin is stopped no overlay is registered.
CloseAllEmptiesRegistry ==
    /\ LET r == CloseAllOp(activeWindows, wins) IN
          /\ r.aw = <<>>
          /\ \A w \in DOMAIN wins :
                Registered(w) => r.ws[w].state = "closing"
    /\ [][(started /\ ~started') =>
             /\ activeWindows' = <<>>
             /\ \A w \in DOMAIN wins :
                   Registered(w) => wins'[w].state = "closing"]_vars
    /\ [](~started => activeWindows = <<>>)

\* the plugin was stopped when a second overlay was shown and the first
\* was not destroyed yet: both are closing
StoppedWithOverlays ==
    /\ ~started
    /\ activeWindows = <<>>
    /\ \A w \in DOMAIN wins : wins[w].state = "closing" /\ wins[w].loaded

\* the capability that reply i needs is missing: no host window, no send
\* function, or no MessageActions.sendMessage
CapabilityMissing(i) ==
    \/ replies'[i].call = 0
    \/ "sendMessage" \notin host.actions

\* the handler of reply i returns in this step
HandlerReturns(i) ==
    /\ i \in 1..Len(replies)
    /\ Len(replies') = Len(replies)
    /\ replies[i].pc \in {"sent", "dispatch"}
    /\ replies'[i].pc = "done"

\* C25: when the host's messaging capability is missing, sendMessageSafe
\* returns false before it primes or calls any variant, and the handler of
\* the reply reports false to the surface that sent the reply if that
\* surface is still live.
MissingCapabilityReportsFalse ==
    /\ []("sendMessage" \notin host.actions =>
             /\ \A id \in 1..Len(sends) :
                   /\ sends[id].pc = "done"
                   /\ sends[id].result = "false"
                   /\ sends[id].tried = <<>>
                   /\ sends[id].nonce = NoNonce
             /\ primes = <<>>
             /\ hostCalls = NoCalls)
    /\ [][\A i \in 1..Len(replies) :
             (HandlerReturns(i) /\ CapabilityMissing(i)) =>
                /\ replies'[i].result = "false"
                /\ (replies[i].origin # Gone
                    /\ wins[replies[i].origin].state \in {"open", "orphan"})
                      => replies'[i].sentTo = "origin"]_vars

(***************************************************************************)
(* SpecPg: the pages of the windows, whose scripts run while messages      *)
(* arrive.                                                                 *)
(***************************************************************************)
MaxMsgsPg == 3
ConvsPg == {1, 2}
WinIdsPg == {1, 2}

InitPg ==
    /\ activeWindows = <<>>
    /\ wins = [w \in WinIdsPg |-> FreeWin]
    /\ lastDraggedPos = NoPos
    /\ clock = 1
    /\ delivered = [k \in {} |-> <<>>]
    /\ Idle

NextPg ==
    \/ \E k \in ConvsPg : clock <= MaxMsgsPg /\ ShowNotification(k, clock)
    \/ \E k \in ConvsPg : CloseNotification(k)
    \/ \E w \in DOMAIN wins : WindowClosed(w)
    \/ \E w \in DOMAIN wins : ScriptRuns(w)
    \/ \E w \in DOMAIN wins : DidFinishLoad(w)

SpecPg == InitPg /\ [][NextPg]_vars

\* C21: the messages of a surface are those of the registry entry of its
\* conversation, in the same order, once every DMOVERLAY_APPEND sent so far
\* has been processed, however the upserts fall relative to the page's load.
SurfaceMirrorsRegistry ==
    \A i \in 1..Len(activeWindows) :
       LET w == activeWindows[i].win IN
       (~IsDestroyed(wins, w) /\ wins[w].loaded)
          => wins[w].messages = activeWindows[i].messages

====
